---------------------------- MODULE Spec2Model ----------------------------
(***************************************************************************)
(* A model of kollaflyget: the App component's fetch handlers, the         *)
(* statistics panel (query filter, status classification), the date-range  *)
(* enumeration and the route-map tiering.                                  *)
(*                                                                         *)
(* Text is modelled as a sequence of characters, a character being a       *)
(* one-letter string.  The letters a/o/u-umlaut and a-ring are written     *)
(* "ae", "oe", "ue", "aa" (upper case "AE", "OE", "UE", "AA").             *)
(* undefined is the one-element sequence                                   *)
(* Absent, whose element is no character, so that  x || ''  and  x ?? d    *)
(* can tell it from the empty text.                                        *)
(***************************************************************************)
EXTENDS Integers, Sequences, FiniteSets, TLC

VARIABLES
    \* ---- statistics panel (AirportStatistics.jsx) ----
    pFlights,        \* props.flights: [items: sequence of flights, meta: range metadata or NoMeta]
    filter,          \* useState('') filter text
    filteredFlights, \* useMemo: filterFlightsByQuery(flights, filter)
    stats,           \* useMemo: the statistics snapshot or NoStats
    rendered,        \* the component returned its panel (not null)
    notice,          \* the metadata prop handed to DataFeedback
    \* ---- applications of the two filter functions ----
    refiltered,      \* <<>> or <<filterFlightsByQuery(filteredFlights, filter)>>
    svcCall,         \* <<>> or <<filterFlights(flights.items, filter)>>
    \* ---- one range fetch ----
    tz,              \* the time zone of the browser
    rStart, rEnd,    \* the ISO dates the range fetch is called with
    rOutcomes,       \* the provider's answer to the fetch of each enumerated date
    rCall,           \* <<>> or <<[dates, result]>>: the call's date list and what it returned
    \* ---- the route map of the statistics panel ----
    mapAirport,      \* props.airportIata
    mapCounts,       \* the accumulator of the route reduce: <<[iata, count]>> in insertion order
    routes,          \* FlightMap's routes for the destinations made of mapCounts
    \* ---- App (App.jsx) ----
    flights,         \* useState([]): the displayed collection
    loading,         \* useState(false)
    error,           \* useState(null): NoError or <<message>>
    searchTitle,     \* useState(DEFAULT_TITLE)
    type,            \* useState('arrivals')
    currentAirport,  \* useState(''): an IATA code or the empty text
    startDate,       \* useState(today)
    endDate,         \* useState(today)
    inFlight,        \* the awaited service calls, in the order they were issued
    lastReq,         \* <<>> or <<[req, result]>>: the call issued last and, once settled, its result
    errorFrom,       \* <<>> or <<[req, outs]>>: the settled call that set error, with the provider's answers
    issued,          \* the number of service calls issued so far
    \* ---- route selection in the statistics panel ----
    selectedRoute,   \* useState(null): Null, or the code or name clicked
    routeFlights,    \* useMemo: the flights of the selected route
    \* ---- one application of getTopItems ----
    topItems,        \* the items handed to getTopItems
    topResult,       \* getTopItems(topItems, 'destination')
    \* ---- one application of transformFlight ----
    provided,        \* the raw record of the provider
    normalized,      \* <<>> or <<the flight transformFlight made of it>>
    \* ---- favorites: localStorage and the copies the components hold ----
    storage,         \* localStorage['kollaflyget_favs']: <<>> (no item) or <<text>>
    listFavorites,   \* FlightList's useState favorites
    statsMounted,    \* AirportStatistics is mounted
    statsFavorites,  \* AirportStatistics's useState favorites
    lastToggle       \* <<>> or <<[id, before, returned]>>: the last call of toggleFavorite

panelVars == <<pFlights, filter, filteredFlights, stats, rendered, notice>>
filterVars == <<refiltered, svcCall>>
rangeVars == <<tz, rStart, rEnd, rOutcomes, rCall>>
mapVars == <<mapAirport, mapCounts, routes>>
appVars == <<flights, loading, error, searchTitle, type, currentAirport,
             startDate, endDate, inFlight, lastReq, errorFrom, issued>>
topVars == <<topItems, topResult>>
routeVars == <<selectedRoute, routeFlights>>
xformVars == <<provided, normalized>>
favVars == <<storage, listFavorites, statsMounted, statsFavorites, lastToggle>>

vars == <<panelVars, filterVars, rangeVars, mapVars, appVars, topVars, routeVars, xformVars, favVars>>

\* what the actions of one part leave alone
notPanel == <<rangeVars, mapVars, appVars, topVars, routeVars, xformVars, favVars>>
notRange == <<panelVars, filterVars, mapVars, appVars, topVars, routeVars, xformVars, favVars>>
notMap   == <<panelVars, filterVars, rangeVars, appVars, topVars, routeVars, xformVars, favVars>>
notApp   == <<panelVars, filterVars, rangeVars, mapVars, topVars, routeVars, xformVars, favVars>>
notTop   == <<panelVars, filterVars, rangeVars, mapVars, appVars, routeVars, xformVars, favVars>>
notXform == <<panelVars, filterVars, rangeVars, mapVars, appVars, topVars, routeVars, favVars>>
notFavs == <<panelVars, filterVars, rangeVars, mapVars, appVars, topVars, routeVars, xformVars>>
notRoutes == <<filterVars, rangeVars, appVars, topVars, xformVars, favVars>>

-----------------------------------------------------------------------------
(* Bounds of the model *)

MaxFlights == 2   \* longest flight list handed to the statistics panel
MaxSpan == 8      \* a range's end date is at most this many days after its start
MaxRouteCount == 10  \* most flights counted for one route
MaxRequests == 3  \* most service calls issued in one behaviour
MaxItems == 6     \* longest list handed to getTopItems
MaxRateFlights == 7  \* longest flight list of the delay-rate specification
MaxListed == 3    \* longest flight list handed to FlightList

-----------------------------------------------------------------------------
(* Text *)

Absent == <<"undefined">>

UpperCase == <<"A","B","C","D","E","F","G","H","I","J","K","L","M","N","O","P",
               "Q","R","S","T","U","V","W","X","Y","Z","AE","OE","UE","AA">>
LowerCase == <<"a","b","c","d","e","f","g","h","i","j","k","l","m","n","o","p",
               "q","r","s","t","u","v","w","x","y","z","ae","oe","ue","aa">>

LowerOf ==
    [c \in {UpperCase[i] : i \in 1..Len(UpperCase)} |->
        LowerCase[CHOOSE i \in 1..Len(UpperCase) : UpperCase[i] = c]]

\* String.prototype.toLowerCase on one character
LowerChar(c) == IF c \in DOMAIN LowerOf THEN LowerOf[c] ELSE c

\* String.prototype.toLowerCase
toLowerCase(s) == [i \in 1..Len(s) |-> LowerChar(s[i])]

\* String.prototype.includes: sub occurs in s as a contiguous run ('' always does)
includes(s, sub) ==
    \E i \in 0..(Len(s) - Len(sub)) : SubSeq(s, i + 1, i + Len(sub)) = sub

\* x || ''  for a text that may be undefined
OrEmpty(x) == IF x = Absent THEN <<>> ELSE x

\* the decimal digits, and a number below 100 written with two of them
Digits == <<"0","1","2","3","4","5","6","7","8","9">>
Pad2(n) == <<Digits[(n \div 10) + 1], Digits[(n % 10) + 1]>>

-----------------------------------------------------------------------------
(* Flight records.  Timestamps are ISO-8601 instants of one day, written   *)
(* <<hours, minutes, seconds>>; <<>> is an absent (falsy) timestamp.       *)

NoTs == <<>>

\* null, and the sentinels of transformFlight
Null == <<"null">>
NoTime == <<"-","-",":","-","-">>
NoGate == <<"-">>

Flight(id, airline, destination, status, sched, actual, est, ty, oIata, dIata) ==
    [id |-> id, airline |-> airline, destination |-> destination,
     status |-> status, scheduledUtc |-> sched, actualUtc |-> actual,
     estimatedUtc |-> est, type |-> ty, originIata |-> oIata,
     destinationIata |-> dIata,
     time |-> NoTime, gate |-> NoGate, terminal |-> Null]

\* new Date(iso).getTime(), in milliseconds since the start of the day
getTime(ts) == ((ts[1] * 60 + ts[2]) * 60 + ts[3]) * 1000

-----------------------------------------------------------------------------
\* An array that may carry the out-of-band property _metadata:
\* meta is <<>> (no property) or <<m>>.
NoMeta == <<>>
Coll(items, meta) == [items |-> items, meta |-> meta]

-----------------------------------------------------------------------------
(* The flights, texts and dates the specifications draw their inputs from *)

st_Landat    == <<"L","a","n","d","a","t">>
st_Forsenat  == <<"F","oe","r","s","e","n","a","t">>
st_DELAYED   == <<"D","E","L","A","Y","E","D">>
st_Installt  == <<"I","n","s","t","ae","l","l","t">>
st_Cancelled == <<"C","a","n","c","e","l","l","e","d">>
st_OnTime    == <<"O","n"," ","T","i","m","e">>
st_CancelledDelayed ==
    <<"C","a","n","c","e","l","l","e","d","/","d","e","l","a","y","e","d">>

StatusTexts ==
    {Absent, st_Landat, st_Forsenat, st_DELAYED, st_Installt, st_Cancelled,
     st_OnTime, st_CancelledDelayed}

T1000 == <<10, 0, 0>>
\* <<scheduledUtc, actualUtc, estimatedUtc>>
Timings ==
    { <<NoTs,  NoTs,           NoTs>>,
      <<T1000, NoTs,           NoTs>>,
      <<T1000, <<10, 14, 59>>, NoTs>>,
      <<T1000, <<10, 15, 0>>,  NoTs>>,
      <<T1000, <<10, 20, 0>>,  NoTs>>,
      <<T1000, NoTs,           <<10, 15, 0>>>>,
      <<T1000, <<10, 14, 0>>,  <<10, 20, 0>>>>,
      <<NoTs,  <<10, 20, 0>>,  NoTs>> }

id_SK100   == <<"S","K","1","0","0">>
id_SK200   == <<"S","K","2","0","0">>
al_SAS     == <<"S","A","S">>
dest_London == <<"L","o","n","d","o","n">>
dest_Madrid == <<"M","a","d","r","i","d">>
iata_LHR   == <<"L","H","R">>
iata_ARN   == <<"A","R","N">>

StatusFlights ==
    { Flight(id_SK100, al_SAS, dest_London, st, t[1], t[2], t[3],
             "Arrival", iata_LHR, iata_ARN) : st \in StatusTexts, t \in Timings }

id_DY300 == <<"D","Y","3","0","0">>
id_LH400 == <<"L","H","4","0","0">>
id_RJ500 == <<"R","J","5","0","0">>
al_Norwegian == <<"N","o","r","w","e","g","i","a","n">>
al_Lufthansa == <<"L","u","f","t","h","a","n","s","a">>
al_Royal     == <<"R","o","y","a","l"," ","J","o","r","d","a","n","i","a","n">>
dest_Oslo  == <<"O","s","l","o">>
dest_Amman == <<"A","m","m","a","n">>
iata_MAD == <<"M","A","D">>
iata_OSL == <<"O","S","L">>
iata_AMM == <<"A","M","M">>

TextFlight(id, airline, destination, oIata) ==
    Flight(id, airline, destination, st_Landat, NoTs, NoTs, NoTs,
           "Arrival", oIata, iata_ARN)

f_London == TextFlight(id_SK100, al_SAS, dest_London, iata_LHR)
f_Madrid == TextFlight(id_SK200, al_SAS, dest_Madrid, iata_MAD)
f_Oslo   == TextFlight(id_DY300, al_Norwegian, dest_Oslo, iata_OSL)
f_NoDest == TextFlight(id_LH400, al_Lufthansa, Absent, Absent)
f_Amman  == TextFlight(id_RJ500, al_Royal, dest_Amman, iata_AMM)

f_FromArlanda == TextFlight(id_SK100, al_SAS, <<"S","t","o","c","k","h","o","l","m">>, iata_ARN)
f_ToOslo ==
    Flight(id_DY300, al_Norwegian, dest_Oslo, st_OnTime, NoTs, NoTs, NoTs,
           "Departure", iata_ARN, iata_OSL)

\* flights at ARN: arrivals from LHR, MAD, ARN itself, AMM (no coordinates)
\* and from no code, and a departure to OSL
MapFlights == {f_London, f_Madrid, f_ToOslo, f_FromArlanda, f_Amman, f_NoDest}

TextFlights == {f_London, f_Madrid, f_Oslo, f_NoDest, f_Amman}

q_Spanien == <<"S","p","a","n","i","e","n">>
q_SPANIEN == <<"S","P","A","N","I","E","N">>
q_spanien == <<"s","p","a","n","i","e","n">>
q_Stor    == <<"S","t","o","r">>
q_sk      == <<"s","k">>
q_SAS     == <<"S","A","S">>
q_n       == <<"n">>
q_lond    == <<"l","O","N","D">>
q_xyz     == <<"x","y","z">>

Queries == {<<>>, q_Spanien, q_SPANIEN, q_spanien, q_Stor, q_sk, q_SAS, q_n,
            q_lond, q_xyz}

\* ISO dates 'YYYY-MM-DD' are written <<year, month, day>>.
Metas ==
    { NoMeta,
      <<[totalDates |-> 2, datesWithData |-> 2, missingDates |-> <<>>]>>,
      <<[totalDates |-> 2, datesWithData |-> 1,
         missingDates |-> << <<2026, 1, 13>> >>]>> }

RangeStarts == {<<2026, 1, 13>>, <<2026, 3, 27>>, <<2026, 10, 24>>}

-----------------------------------------------------------------------------
(* Status classification (AirportStatistics.jsx, calculateStatusCounts) *)

DelayThresholdMinutes == 15

txt_landat    == <<"l","a","n","d","a","t">>
txt_delayed   == <<"d","e","l","a","y","e","d">>
txt_forsenat  == <<"f","oe","r","s","e","n","a","t">>
txt_cancelled == <<"c","a","n","c","e","l","l","e","d">>
txt_installt  == <<"i","n","s","t","ae","l","l","t">>

\* isDelayed of the reduce callback with the threshold test written > 15
isDelayed_StrictThreshold(f) ==
    LET s == toLowerCase(OrEmpty(f.status))
        byText == includes(s, txt_delayed) \/ includes(s, txt_forsenat)
        latest == IF f.actualUtc # NoTs THEN f.actualUtc ELSE f.estimatedUtc
    IN  IF byText THEN TRUE
        ELSE IF f.scheduledUtc # NoTs /\ latest # NoTs
             THEN getTime(latest) - getTime(f.scheduledUtc)
                     > DelayThresholdMinutes * 1000 * 60
             ELSE FALSE

\* let isDelayed of the reduce callback.  actual - scheduled is kept in
\* milliseconds: diffMinutes >= 15 is compared without the division by
\* (1000 * 60), which is exact for it.
isDelayed(f) ==
    LET s == toLowerCase(OrEmpty(f.status))
        byText == includes(s, txt_delayed) \/ includes(s, txt_forsenat)
        latest == IF f.actualUtc # NoTs THEN f.actualUtc ELSE f.estimatedUtc
    IN  IF byText THEN TRUE
        ELSE IF f.scheduledUtc # NoTs /\ latest # NoTs
             THEN getTime(latest) - getTime(f.scheduledUtc)
                     >= DelayThresholdMinutes * 1000 * 60
             ELSE FALSE

\* the if chain of the reduce callback written as independent ifs for the
\* landed and the delayed counter
countFlight_NoElse(acc, f) ==
    LET s == toLowerCase(OrEmpty(f.status))
        a1 == IF includes(s, txt_landat) THEN [acc EXCEPT !.landed = @ + 1] ELSE acc
    IN  IF isDelayed(f) THEN [a1 EXCEPT !.delayed = @ + 1]
        ELSE IF includes(s, txt_landat) THEN a1
        ELSE IF includes(s, txt_cancelled) \/ includes(s, txt_installt)
             THEN [a1 EXCEPT !.cancelled = @ + 1]
        ELSE [a1 EXCEPT !.onTime = @ + 1]

\* the reduce callback (acc, f) => acc
countFlight(acc, f) ==
    LET s == toLowerCase(OrEmpty(f.status))
    IN  IF includes(s, txt_landat) THEN [acc EXCEPT !.landed = @ + 1]
        ELSE IF isDelayed(f) THEN [acc EXCEPT !.delayed = @ + 1]
        ELSE IF includes(s, txt_cancelled) \/ includes(s, txt_installt)
             THEN [acc EXCEPT !.cancelled = @ + 1]
        ELSE [acc EXCEPT !.onTime = @ + 1]

ZeroCounts == [landed |-> 0, delayed |-> 0, cancelled |-> 0, onTime |-> 0]

\* flights.reduce(callback, {landed: 0, delayed: 0, cancelled: 0, onTime: 0})
RECURSIVE calculateStatusCounts(_)
calculateStatusCounts(fs) ==
    IF fs = <<>> THEN ZeroCounts
    ELSE countFlight(calculateStatusCounts(SubSeq(fs, 1, Len(fs) - 1)),
                     fs[Len(fs)])

-----------------------------------------------------------------------------
(* Query filter.  COUNTRY_MAPPING is the object of swedaviaApi.js as the   *)
(* sequence of its entries <<country, keywords>>, in insertion order.      *)

COUNTRY_MAPPING == <<
    <<<<"S","p","a","n","i","e","n">>,
      <<<<"M","A","D">>,
        <<"B","A","R">>,
        <<"A","L","C">>,
        <<"A","G","P">>,
        <<"P","M","I">>,
        <<"L","P","A">>,
        <<"T","F","S">>,
        <<"A","l","i","c","a","n","t","e">>,
        <<"M","a","l","a","g","a">>,
        <<"B","a","r","c","e","l","o","n","a">>,
        <<"M","a","d","r","i","d">>,
        <<"P","a","l","m","a">>,
        <<"G","r","a","n"," ","C","a","n","a","r","i","a">>,
        <<"T","e","n","e","r","i","f","f","a">>>>>>,
    <<<<"T","y","s","k","l","a","n","d">>,
      <<<<"F","R","A">>,
        <<"M","U","C">>,
        <<"B","E","R">>,
        <<"H","A","M">>,
        <<"D","U","S">>,
        <<"F","r","a","n","k","f","u","r","t">>,
        <<"M","ue","n","c","h","e","n">>,
        <<"B","e","r","l","i","n">>,
        <<"H","a","m","b","u","r","g">>,
        <<"D","ue","s","s","e","l","d","o","r","f">>>>>>,
    <<<<"S","t","o","r","b","r","i","t","a","n","n","i","e","n">>,
      <<<<"L","H","R">>,
        <<"L","G","W">>,
        <<"S","T","N">>,
        <<"M","A","N">>,
        <<"L","o","n","d","o","n">>,
        <<"M","a","n","c","h","e","s","t","e","r">>>>>>,
    <<<<"F","r","a","n","k","r","i","k","e">>,
      <<<<"C","D","G">>,
        <<"O","R","Y">>,
        <<"N","C","E">>,
        <<"P","a","r","i","s">>,
        <<"N","i","c","e">>>>>>,
    <<<<"I","t","a","l","i","e","n">>,
      <<<<"F","C","O">>,
        <<"M","X","P">>,
        <<"V","C","E">>,
        <<"R","o","m">>,
        <<"M","i","l","a","n","o">>,
        <<"V","e","n","e","d","i","g">>>>>>,
    <<<<"N","o","r","g","e">>,
      <<<<"O","S","L">>,
        <<"B","G","O">>,
        <<"T","R","D">>,
        <<"O","s","l","o">>,
        <<"B","e","r","g","e","n">>,
        <<"T","r","o","n","d","h","e","i","m">>>>>>,
    <<<<"D","a","n","m","a","r","k">>,
      <<<<"C","P","H">>,
        <<"B","L","L">>,
        <<"K","oe","p","e","n","h","a","m","n">>,
        <<"B","i","l","l","u","n","d">>>>>>,
    <<<<"F","i","n","l","a","n","d">>,
      <<<<"H","E","L">>,
        <<"H","e","l","s","i","n","g","f","o","r","s">>>>>>,
    <<<<"U","S","A">>,
      <<<<"J","F","K">>,
        <<"E","W","R">>,
        <<"O","R","D">>,
        <<"L","A","X">>,
        <<"N","e","w"," ","Y","o","r","k">>,
        <<"C","h","i","c","a","g","o">>,
        <<"L","o","s"," ","A","n","g","e","l","e","s">>>>>>,
    <<<<"T","h","a","i","l","a","n","d">>,
      <<<<"B","K","K">>,
        <<"H","K","T">>,
        <<"B","a","n","g","k","o","k">>,
        <<"P","h","u","k","e","t">>>>>>,
    <<<<"G","r","e","k","l","a","n","d">>,
      <<<<"A","T","H">>,
        <<"C","H","Q">>,
        <<"R","H","O">>,
        <<"A","t","e","n">>,
        <<"C","h","a","n","i","a">>,
        <<"R","h","o","d","o","s">>>>>>
>>

RECURSIVE Flatten(_)
Flatten(ss) == IF ss = <<>> THEN <<>> ELSE Head(ss) \o Flatten(Tail(ss))

\* the entries with country.toLowerCase() and keywords.map((k) => k.toLowerCase())
\* worked out once: neither depends on the query
LoweredEntries ==
    [i \in 1..Len(COUNTRY_MAPPING) |->
        [country  |-> COUNTRY_MAPPING[i][1],
         lowered  |-> toLowerCase(COUNTRY_MAPPING[i][1]),
         keywords |-> [k \in 1..Len(COUNTRY_MAPPING[i][2]) |->
                          toLowerCase(COUNTRY_MAPPING[i][2][k])]]]

\* countryMatches with the country name compared as it is written
countryMatches_CaseSensitive(q) ==
    LET hit(e) == includes(e.country, q)
        hits == SelectSeq(LoweredEntries, hit)
    IN  Flatten([i \in 1..Len(hits) |-> hits[i].keywords])

\* Object.entries(COUNTRY_MAPPING).filter(([country]) => country.toLowerCase().includes(q))
\*       .flatMap(([, keywords]) => keywords.map((k) => k.toLowerCase()))
countryMatches(q) ==
    LET hit(e) == includes(e.lowered, q)
        hits == SelectSeq(LoweredEntries, hit)
    IN  Flatten([i \in 1..Len(hits) |-> hits[i].keywords])

\* countryMatches.some((k) => dest.includes(k))
someKeyword(ks, dest) == \E i \in 1..Len(ks) : includes(dest, ks[i])

\* the callback of flights.filter in filterFlightsByQuery
matchesQuery(f, q, ks) ==
    LET dest    == toLowerCase(OrEmpty(f.destination))
        airline == toLowerCase(OrEmpty(f.airline))
        id      == toLowerCase(OrEmpty(f.id))
    IN  \/ includes(id, q)
        \/ includes(dest, q)
        \/ includes(airline, q)
        \/ someKeyword(ks, dest)

\* filterFlightsByQuery that filters on an empty query too: a new array
\* without the properties of the input
filterFlightsByQuery_CopiesOnEmpty(fs, query) ==
    LET q  == toLowerCase(query)
        ks == countryMatches(q)
        keep(f) == matchesQuery(f, q, ks)
    IN  Coll(SelectSeq(fs.items, keep), NoMeta)

\* filterFlightsByQuery with the scan of the array begun at index 1
filterFlightsByQuery_SkipsFirst(fs, query) ==
    IF query = <<>> THEN fs
    ELSE LET q  == toLowerCase(query)
             ks == countryMatches(q)
             keep(f) == matchesQuery(f, q, ks)
         IN  Coll(SelectSeq(IF fs.items = <<>> THEN <<>> ELSE Tail(fs.items),
                            keep), NoMeta)

\* AirportStatistics.jsx filterFlightsByQuery: the input array itself for an
\* empty query, else a new array (Array.prototype.filter copies no property).
filterFlightsByQuery(fs, query) ==
    IF query = <<>> THEN fs
    ELSE LET q  == toLowerCase(query)
             ks == countryMatches(q)
             keep(f) == matchesQuery(f, q, ks)
         IN  Coll(SelectSeq(fs.items, keep), NoMeta)

\* swedaviaApi.js filterFlights: no guard for an empty query and none for an
\* undefined field, on which .toLowerCase() raises a TypeError.
TypeError == Coll(<<"TypeError">>, NoMeta)
\* f.destination.toLowerCase(), f.airline.toLowerCase() or f.id.toLowerCase()
\* is called on undefined
readsUndefined(fs) ==
    \E i \in 1..Len(fs) : Absent \in {fs[i].id, fs[i].destination, fs[i].airline}

filterFlights(fs, query) ==
    LET q  == toLowerCase(query)
        ks == countryMatches(q)
        keep(f) == \/ includes(toLowerCase(f.id), q)
                   \/ includes(toLowerCase(f.destination), q)
                   \/ includes(toLowerCase(f.airline), q)
                   \/ someKeyword(ks, toLowerCase(f.destination))
    IN  IF readsUndefined(fs)
        THEN TypeError
        ELSE Coll(SelectSeq(fs, keep), NoMeta)

-----------------------------------------------------------------------------
(* Dates.  An ISO date 'YYYY-MM-DD' is <<year, month, day>>, of the year   *)
(* 2026.  A Date object is its time value, here in whole hours since       *)
(* 2026-01-01T00:00Z (every time value of the model is a whole hour).      *)

DaysInMonth == <<31, 28, 31, 30, 31, 30, 31, 31, 30, 31, 30, 31>>

RECURSIVE DaysBeforeMonth(_)
DaysBeforeMonth(m) == IF m = 1 THEN 0 ELSE DaysBeforeMonth(m - 1) + DaysInMonth[m - 1]

\* days from 2026-01-01 to the ISO date
DayOfYear(iso) == DaysBeforeMonth(iso[2]) + iso[3] - 1

\* the ISO date of a day counted from 2026-01-01
IsoOfDay(n) ==
    LET m == CHOOSE k \in 1..12 :
                 DaysBeforeMonth(k) <= n /\ n < DaysBeforeMonth(k) + DaysInMonth[k]
    IN  <<2026, m, n - DaysBeforeMonth(m) + 1>>

\* new Date('YYYY-MM-DD'): a date-only form is UTC midnight
DateParse(iso) == 24 * DayOfYear(iso)

\* date.toISOString().split('T')[0]
toISODate(t) == IsoOfDay(t \div 24)

\* Daylight saving time in Europe/Stockholm in 2026 begins on 29 March and
\* ends on 25 October, both at 01:00 UTC.
DstBegins == DateParse(<<2026, 3, 29>>) + 1
DstEnds   == DateParse(<<2026, 10, 25>>) + 1

TimeZones == {"UTC", "Europe/Stockholm"}

\* LocalTZA(t, true): the offset, in hours, in force at the UTC time t
OffsetAtUTC(zone, t) ==
    IF zone = "UTC" THEN 0
    ELSE IF DstBegins <= t /\ t < DstEnds THEN 2 ELSE 1

\* LocalTZA(t, false): the offset of the local time l; a local time skipped
\* or repeated at a transition is read with the offset before the transition
OffsetAtLocal(zone, l) ==
    IF zone = "UTC" THEN 0
    ELSE IF l < DstBegins + 2 THEN 1
    ELSE IF l < DstEnds + 2 THEN 2
    ELSE 1

\* current.setDate(current.getDate() + 1): one day later by the local calendar,
\* at the same local time of day
setDateNextDay(zone, t) ==
    LET local == t + OffsetAtUTC(zone, t)
        next  == ((local \div 24) + 1) * 24 + (local % 24)
    IN  next - OffsetAtLocal(zone, next)

MaxDates == 7

\* the loop  while (current <= endDate && count < 7)
RECURSIVE datesLoop(_, _, _, _, _)
datesLoop(zone, dates, current, last, count) ==
    IF current <= last /\ count < MaxDates
    THEN datesLoop(zone, Append(dates, toISODate(current)),
                   setDateNextDay(zone, current), last, count + 1)
    ELSE dates

\* the dates a range fetch enumerates
enumerateDates(zone, start, end) ==
    datesLoop(zone, <<>>, DateParse(start), DateParse(end), 0)

-----------------------------------------------------------------------------
(* The provider and swedaviaService.getFlights.  An optional object of a   *)
(* raw record is <<>> or <<object>>; an optional text is Absent or a text. *)


\* the text 'YYYY-MM-DD' of an ISO date
IsoText(d) ==
    Pad2(d[1] \div 100) \o Pad2(d[1] % 100) \o <<"-">> \o Pad2(d[2]) \o <<"-">> \o Pad2(d[3])

\* the text 'YYYY-MM-DDTHH:MM:00Z'
IsoTimestamp(d, hh, mm) ==
    IsoText(d) \o <<"T">> \o Pad2(hh) \o <<":">> \o Pad2(mm) \o <<":","0","0","Z">>

iata_GOT == <<"G","O","T">>
name_Stockholm == <<"S","t","o","c","k","h","o","l","m">>
name_Goteborg  == <<"G","oe","t","e","b","o","r","g">>
al_Unknown == <<"U","n","k","n","o","w","n">>
st_Okand   == <<"O","k","ae","n","d">>

\* the one flight the provider has for an airport, a direction and a date:
\* to or from London, with a flight id of the date
RawFlight(iata, ty, d) ==
    LET here  == IF iata = iata_ARN THEN name_Stockholm ELSE name_Goteborg
        isArr == ty = "arrivals"
        sched == [scheduledUtc |-> IsoTimestamp(d, 10, 0)]
    IN  [flightId |-> IF d[3] % 2 = 1 THEN id_SK100 ELSE id_SK200,
         airlineOperator |-> <<[name |-> al_SAS]>>,
         departureAirportSwedish |-> IF isArr THEN dest_London ELSE here,
         arrivalAirportSwedish   |-> IF isArr THEN here ELSE dest_London,
         flightLegIdentifier |->
             <<[departureAirportIata |-> IF isArr THEN iata_LHR ELSE iata,
                arrivalAirportIata   |-> IF isArr THEN iata ELSE iata_LHR]>>,
         arrivalTime   |-> IF isArr THEN <<sched>> ELSE <<>>,
         departureTime |-> IF isArr THEN <<>> ELSE <<sched>>,
         locationAndStatus |->
             <<[flightLegStatusSwedish |-> IF isArr THEN st_Landat ELSE Absent,
                gate |-> Absent, terminal |-> Absent]>>]

\* s.split('T')[1]: the text between the first and the second "T", or
\* undefined when s holds no "T"
splitT1(s) ==
    LET ts == {i \in 1..Len(s) : s[i] = "T"}
    IN  IF ts = {} THEN Absent
        ELSE LET a == CHOOSE i \in ts : \A j \in ts : i <= j
                 later == {j \in ts : j > a}
                 b == IF later = {} THEN Len(s) + 1
                      ELSE CHOOSE j \in later : \A k \in later : j <= k
             IN  SubSeq(s, a + 1, b - 1)

\* s.substring(0, n)
substring0(s, n) == SubSeq(s, 1, IF Len(s) < n THEN Len(s) ELSE n)

\* x ?? d  without its right-hand side
Coalesce_NoDefault(x, d) == x

\* x ?? d
Coalesce(x, d) == IF x = Absent THEN d ELSE x

transformFlight(rawFlight, ty) ==
    LET isArrival == ty = "arrivals"
        timeData  == IF isArrival THEN rawFlight.arrivalTime ELSE rawFlight.departureTime
        leg       == rawFlight.flightLegIdentifier
        las       == rawFlight.locationAndStatus
        scheduled == IF timeData = <<>> THEN Absent ELSE timeData[1].scheduledUtc
        hhmm      == IF scheduled = Absent \/ splitT1(scheduled) = Absent THEN Absent
                     ELSE substring0(splitT1(scheduled), 5)
    IN  [id |-> rawFlight.flightId,
         airline |-> IF rawFlight.airlineOperator = <<>> THEN al_Unknown
                     ELSE Coalesce(rawFlight.airlineOperator[1].name, al_Unknown),
         destination |-> IF isArrival THEN rawFlight.departureAirportSwedish
                         ELSE rawFlight.arrivalAirportSwedish,
         originIata |-> IF leg = <<>> THEN Absent ELSE leg[1].departureAirportIata,
         destinationIata |-> IF leg = <<>> THEN Absent ELSE leg[1].arrivalAirportIata,
         time |-> Coalesce(hhmm, NoTime),
         status |-> IF las = <<>> THEN st_Okand
                    ELSE Coalesce(las[1].flightLegStatusSwedish, st_Okand),
         gate |-> IF las = <<>> THEN NoGate ELSE Coalesce(las[1].gate, NoGate),
         type |-> IF isArrival THEN "Arrival" ELSE "Departure",
         terminal |-> IF las = <<>> THEN Null ELSE Coalesce(las[1].terminal, Null),
         \* properties the record does not have read as undefined
         scheduledUtc |-> NoTs, actualUtc |-> NoTs, estimatedUtc |-> NoTs]

\* The provider's answer to the fetch of one date: "fail" (fetchWithProxy
\* throws), or a body with no flight or with one.
Outcomes == {"fail", "empty", "one"}

\* data.flights ?? [] of the answer
rawFlightsOf(iata, ty, iso, o) == IF o = "one" THEN <<RawFlight(iata, ty, iso)>> ELSE <<>>

\* what an awaited call gives: the collection it resolves with, or the
\* message of the Error it rejects with
Resolved(coll) == [threw |-> FALSE, message |-> "", data |-> coll]
Rejected(msg)  == [threw |-> TRUE, message |-> msg, data |-> Coll(<<>>, NoMeta)]

\* fetchWithProxy's  throw new Error(`Network error: ${response.status}`)
NetworkError == Rejected("Network error: 500")

\* fetchWithProxy's  throw new Error('API-nyckel saknas eller är felaktig (401).')
Unauthorized == Rejected("API-nyckel saknas eller aer felaktig (401).")

\* the rejection of fetch itself when the network is unreachable
FetchRejected == Rejected("Failed to fetch")

\* the answers on which fetchWithProxy throws: a status that is not ok, the
\* status 401, no answer at all
Failures == {"fail", "unauthorized", "offline"}

\* the answers to the fetch of a single-date selection
SingleOutcomes == Outcomes \cup Failures

\* fetchWithProxy(path) on a failure o
fetchWithProxy(o) ==
    CASE o = "unauthorized" -> Unauthorized
      [] o = "offline"      -> FetchRejected
      [] OTHER              -> NetworkError

\* getFlights whose catch block returns no flights instead of rethrowing
getFlights_SwallowsErrors(airportIata, ty, date, o) ==
    LET raw == rawFlightsOf(airportIata, ty, date, o)
    IN  Resolved(Coll([i \in 1..Len(raw) |-> transformFlight(raw[i], ty)], NoMeta))

getFlights(airportIata, ty, date, o) ==
    IF o \in Failures THEN fetchWithProxy(o)
    ELSE LET raw == rawFlightsOf(airportIata, ty, date, o)
         IN  Resolved(Coll([i \in 1..Len(raw) |-> transformFlight(raw[i], ty)], NoMeta))

\* searchFlight(query, date) for the answers to its two fetches
searchFlight(query, date, oArr, oDep) ==
    LET arrivals   == getFlights(iata_ARN, "arrivals", date, oArr)
        departures == getFlights(iata_ARN, "departures", date, oDep)
    IN  IF arrivals.threw THEN arrivals
        ELSE IF departures.threw THEN departures
        ELSE LET all == arrivals.data.items \o departures.data.items
             IN  IF readsUndefined(all) THEN Rejected("TypeError")
                 ELSE Resolved(filterFlights(all, query))

-----------------------------------------------------------------------------
(* getFlightsInRange: one getFlights per enumerated date *)

\* the flights one date contributes: none when its fetch failed
flightsOfOutcome(iata, ty, iso, o) ==
    LET r == getFlights(iata, ty, iso, o)
    IN  IF r.threw THEN <<>> ELSE r.data.items

\* the hard error of a range none of whose dates could be fetched
HardError == NetworkError

\* the metadata with datesWithData set to the number of enumerated dates
RangeMeta_CountsEveryDate(iata, ty, dates, outs) ==
    LET yields(i) == Len(flightsOfOutcome(iata, ty, dates[i], outs[i]))
        idx == [i \in 1..Len(dates) |-> i]
        none(i) == yields(i) = 0
        missingIdx == SelectSeq(idx, none)
    IN  [totalDates    |-> Len(dates),
         datesWithData |-> Len(dates),
         missingDates  |-> [k \in 1..Len(missingIdx) |-> dates[missingIdx[k]]]]

\* RangeMetadata: totalDates = length of the date list, datesWithData = the
\* dates that yielded a flight, missingDates = the dates that yielded none
RangeMeta(iata, ty, dates, outs) ==
    LET yields(i) == Len(flightsOfOutcome(iata, ty, dates[i], outs[i]))
        idx == [i \in 1..Len(dates) |-> i]
        none(i) == yields(i) = 0
        missingIdx == SelectSeq(idx, none)
    IN  [totalDates    |-> Len(dates),
         datesWithData |-> Cardinality({i \in 1..Len(dates) : yields(i) >= 1}),
         missingDates  |-> [k \in 1..Len(missingIdx) |-> dates[missingIdx[k]]]]

\* getFlightsInRange(iata, type, start, end) for the answers outs, one per
\* enumerated date
getFlightsInRange(iata, ty, dates, outs) ==
    IF Len(dates) > 0 /\ \A i \in 1..Len(dates) : outs[i] = "fail"
    THEN HardError
    ELSE Resolved(Coll(Flatten([i \in 1..Len(dates) |->
                                  flightsOfOutcome(iata, ty, dates[i], outs[i])]),
                       <<RangeMeta(iata, ty, dates, outs)>>))

-----------------------------------------------------------------------------
(* The route map: the destinations AirportStatistics makes of the         *)
(* filtered flights, and FlightMap's routes.  DESTINATION_COORDS is the    *)
(* set of its keys; the coordinates take no part in the tiers.             *)

DESTINATION_COORDS ==
    {<<"A","R","N">>, <<"G","O","T">>, <<"B","M","A">>, <<"M","M","X">>, <<"L","L","A">>,
     <<"U","M","E">>, <<"O","S","R">>, <<"V","B","Y">>, <<"R","N","B">>, <<"K","R","N">>,
     <<"S","D","L">>, <<"V","X","O">>, <<"N","R","K">>, <<"K","S","D">>, <<"H","E","L">>,
     <<"C","P","H">>, <<"O","S","L">>, <<"F","R","A">>, <<"M","U","C">>, <<"B","E","R">>,
     <<"L","H","R">>, <<"L","G","W">>, <<"A","M","S">>, <<"C","D","G">>, <<"M","A","D">>,
     <<"B","C","N">>, <<"A","G","P">>, <<"P","M","I">>, <<"A","L","C">>, <<"F","C","O">>,
     <<"M","X","P">>, <<"V","C","E">>, <<"A","T","H">>, <<"Z","R","H">>, <<"V","I","E">>,
     <<"B","R","U">>, <<"I","S","T">>, <<"D","X","B">>, <<"D","O","H">>, <<"B","K","K">>,
     <<"J","F","K">>, <<"E","W","R">>, <<"O","R","D">>, <<"L","A","X">>}

\* the test of the reduce callback without  dest !== airportIata
isCounted_AllowsSelfLoop(dest, airportIata) ==
    /\ dest # Absent /\ dest # <<>>
    /\ dest \in DESTINATION_COORDS

\* if (dest && dest !== airportIata && DESTINATION_COORDS[dest])
isCounted(dest, airportIata) ==
    /\ dest # Absent /\ dest # <<>>
    /\ dest # airportIata
    /\ dest \in DESTINATION_COORDS

farEnd(f) == IF f.type = "Arrival" THEN f.originIata ELSE f.destinationIata

\* the reduce callback: acc[dest] = (acc[dest] || 0) + 1
countRoute(acc, f, airportIata) ==
    LET dest == farEnd(f)
    IN  IF ~isCounted(dest, airportIata) THEN acc
        ELSE IF \E i \in 1..Len(acc) : acc[i].iata = dest
        THEN [i \in 1..Len(acc) |->
                 IF acc[i].iata = dest THEN [acc[i] EXCEPT !.count = @ + 1] ELSE acc[i]]
        ELSE Append(acc, [iata |-> dest, count |-> 1])

\* Math.max(...Object.values(counts), 1)
RECURSIVE maxCount(_)
maxCount(acc) ==
    IF acc = <<>> THEN 1
    ELSE LET m == maxCount(Tail(acc))
         IN  IF Head(acc).count > m THEN Head(acc).count ELSE m

\* Object.entries(counts).map(...): popularity = count / max is kept as the
\* fraction <<count, max>>.  For these whole numbers the double count / max
\* compares with the literals 0.7 and 0.3 as the fraction compares with
\* 7/10 and 3/10: the division is correctly rounded, so a quotient that is
\* 3/10 is the double 0.3 itself.
destinationsOf(acc) ==
    [i \in 1..Len(acc) |->
        [iata |-> acc[i].iata, count |-> acc[i].count,
         popularity |-> <<acc[i].count, maxCount(acc)>>]]

color_popular == "#10b981"
color_medium  == "#3b82f6"
color_rare    == "#94a3b8"

\* p > x for the fraction p and x = tenths / 10
GreaterThanTenths(p, tenths) == 10 * p[1] > tenths * p[2]

\* the colour rule with the upper boundary written >= 0.7
routeColor_InclusivePopular(popularity) ==
    IF 10 * popularity[1] >= 7 * popularity[2] THEN color_popular
    ELSE IF GreaterThanTenths(popularity, 3) THEN color_medium
    ELSE color_rare

\* the colour rule with the lower boundary written >= 0.3
routeColor_InclusiveMedium(popularity) ==
    IF GreaterThanTenths(popularity, 7) THEN color_popular
    ELSE IF 10 * popularity[1] >= 3 * popularity[2] THEN color_medium
    ELSE color_rare

\* dest.popularity > 0.7 ? '#10b981' : dest.popularity > 0.3 ? '#3b82f6' : '#94a3b8'
routeColor(popularity) ==
    IF GreaterThanTenths(popularity, 7) THEN color_popular
    ELSE IF GreaterThanTenths(popularity, 3) THEN color_medium
    ELSE color_rare

\* FlightMap routes: none without the origin's coordinates
FlightMapRoutes(originIata, destinations) ==
    IF originIata \notin DESTINATION_COORDS THEN <<>>
    ELSE [i \in 1..Len(destinations) |->
             [iata |-> destinations[i].iata, count |-> destinations[i].count,
              popularity |-> destinations[i].popularity,
              color |-> routeColor(destinations[i].popularity)]]

\* the destinations prop: filteredFlights.reduce(...) from {}
RECURSIVE routeCounts(_, _)
routeCounts(fs, airportIata) ==
    IF fs = <<>> THEN <<>>
    ELSE countRoute(routeCounts(SubSeq(fs, 1, Len(fs) - 1), airportIata),
                    fs[Len(fs)], airportIata)

\* String.prototype.trim, for texts whose only white space is the blank
RECURSIVE trim(_)
trim(s) ==
    IF s = <<>> THEN s
    ELSE IF Head(s) = " " THEN trim(Tail(s))
    ELSE IF s[Len(s)] = " " THEN trim(SubSeq(s, 1, Len(s) - 1))
    ELSE s

\* the routeFlights filter callback without the test
\* normalizedRoute.includes(destName)
routeMatches_NoReverse(f, normalizedRoute) ==
    LET originIata == toLowerCase(OrEmpty(f.originIata))
        destIata   == toLowerCase(OrEmpty(f.destinationIata))
        destName   == toLowerCase(OrEmpty(f.destination))
    IN  \/ originIata = normalizedRoute
        \/ destIata = normalizedRoute
        \/ includes(destName, normalizedRoute)

\* the routeFlights filter callback
routeMatches(f, normalizedRoute) ==
    LET originIata == toLowerCase(OrEmpty(f.originIata))
        destIata   == toLowerCase(OrEmpty(f.destinationIata))
        destName   == toLowerCase(OrEmpty(f.destination))
    IN  \/ originIata = normalizedRoute
        \/ destIata = normalizedRoute
        \/ includes(destName, normalizedRoute)
        \/ includes(normalizedRoute, destName)

\* useMemo routeFlights
routeFlightsOf(route, filtered) ==
    IF route = Null \/ route = <<>> THEN <<>>
    ELSE LET normalizedRoute == trim(toLowerCase(route))
             keep(f) == routeMatches(f, normalizedRoute)
         IN  SelectSeq(filtered, keep)

-----------------------------------------------------------------------------
(* getTopItems.  The accumulator object is the sequence of its entries     *)
(* <<key, count>> in the order Object.entries gives them.                  *)

txt_undefined == <<"u","n","d","e","f","i","n","e","d">>

\* the property key a value is converted to: String(value)
propertyKey(v) == IF v = Absent THEN txt_undefined ELSE v

\* a canonical array index ("0", "7", "12"): Object.entries lists such keys
\* first, in ascending numeric order, before the other keys
isArrayIndex(k) ==
    /\ k # <<>> /\ Len(k) <= 9
    /\ \A i \in 1..Len(k) : \E d \in 1..10 : Digits[d] = k[i]
    /\ (Len(k) > 1 => k[1] # "0")

RECURSIVE numberOf(_)
numberOf(k) ==
    IF k = <<>> THEN 0
    ELSE 10 * numberOf(SubSeq(k, 1, Len(k) - 1))
         + (CHOOSE d \in 0..9 : Digits[d + 1] = k[Len(k)])

\* the entry <<k, 1>> put where Object.entries will list the new key k
insertKey(acc, k) ==
    IF isArrayIndex(k)
    THEN LET before(e) == isArrayIndex(e[1]) /\ numberOf(e[1]) < numberOf(k)
             after(e)  == ~before(e)
         IN  SelectSeq(acc, before) \o << <<k, 1>> >> \o SelectSeq(acc, after)
    ELSE Append(acc, <<k, 1>>)

\* the reduce callback: acc[value] = (acc[value] || 0) + 1
countValue(acc, v) ==
    LET k == propertyKey(v)
    IN  IF \E i \in 1..Len(acc) : acc[i][1] = k
        THEN [i \in 1..Len(acc) |->
                 IF acc[i][1] = k THEN <<k, acc[i][2] + 1>> ELSE acc[i]]
        ELSE insertKey(acc, k)

RECURSIVE countValues(_, _)
countValues(items, key) ==
    IF items = <<>> THEN <<>>
    ELSE countValue(countValues(SubSeq(items, 1, Len(items) - 1), key),
                    items[Len(items)][key])

\* entries.sort((a, b) => b[1] - a[1]): descending by count, and stable
RECURSIVE sortByCountDesc(_)
sortByCountDesc(entries) ==
    IF entries = <<>> THEN <<>>
    ELSE LET top == CHOOSE i \in 1..Len(entries) :
                       /\ \A j \in 1..Len(entries) : entries[j][2] <= entries[i][2]
                       /\ \A j \in 1..(i - 1) : entries[j][2] < entries[i][2]
             rest == [j \in 1..(Len(entries) - 1) |->
                         IF j < top THEN entries[j] ELSE entries[j + 1]]
         IN  <<entries[top]>> \o sortByCountDesc(rest)

TopLimit == 5

\* getTopItems without the slice
getTopItems_NoSlice(items, key) == sortByCountDesc(countValues(items, key))

getTopItems(items, key) ==
    LET sorted == sortByCountDesc(countValues(items, key))
    IN  SubSeq(sorted, 1, IF Len(sorted) < TopLimit THEN Len(sorted) ELSE TopLimit)

-----------------------------------------------------------------------------
(* The statistics panel (AirportStatistics.jsx, AirportStatistics) *)

NoStats == <<>>

\* String(n) of a whole number n >= 0
RECURSIVE IntText(_)
IntText(n) == IF n < 10 THEN <<Digits[n + 1]>>
              ELSE IntText(n \div 10) \o <<Digits[(n % 10) + 1]>>

\* the text of a number of tenths, e.g. 667 as "66.7"
TenthsText(t) == IntText(t \div 10) \o <<".">> \o <<Digits[(t % 10) + 1]>>

\* toFixed(1) cutting the second decimal off instead of rounding
toFixed1_Truncates(num, den) == TenthsText((1000 * num) \div den)

\* ((num / den) * 100).toFixed(1): the nearest number of tenths, the larger
\* one at a tie.  The double (num / den) * 100 is within 1e-13 of the exact
\* quotient, which for den < 16 is never near a tie, so the exact quotient
\* decides the rounding.
toFixed1(num, den) == TenthsText((2000 * num + den) \div (2 * den))

\* useMemo stats: null for an empty filtered set
statsOf(filtered) ==
    IF Len(filtered.items) = 0 THEN NoStats
    ELSE LET statusCounts == calculateStatusCounts(filtered.items)
         IN  <<[total |-> Len(filtered.items),
                statusCounts |-> statusCounts,
                delayRate |-> toFixed1(statusCounts.delayed, Len(filtered.items)),
                topDestinations |-> getTopItems(filtered.items, "destination"),
                topAirlines |-> getTopItems(filtered.items, "airline")]>>

\* the early return of the component: nothing is rendered
returnsNull(fs) ==
    Len(fs.items) = 0
        /\ (fs.meta = NoMeta \/ Len(fs.meta[1].missingDates) = 0)

\* DataFeedback given the metadata of the filtered array
DataFeedbackMetadata_OfFiltered(fs, filtered) == filtered.meta

\* <DataFeedback metadata={flights._metadata} />
DataFeedbackMetadata(fs, filtered) == fs.meta


\* DataFeedback that stays silent about a single missing date
DataFeedback_HidesSingle(metadata) ==
    IF metadata = NoMeta \/ Len(metadata[1].missingDates) <= 1 THEN <<>>
    ELSE metadata[1].missingDates

\* DataFeedback: the dates its notice lists, <<>> when it renders nothing
DataFeedback(metadata) ==
    IF metadata = NoMeta \/ Len(metadata[1].missingDates) = 0 THEN <<>>
    ELSE metadata[1].missingDates

\* One render of the component with props.flights = fl and filter state q
Render(fl, q) ==
    /\ pFlights' = fl
    /\ filter' = q
    /\ filteredFlights' = filterFlightsByQuery(fl, q)
    /\ stats' = statsOf(filteredFlights')
    /\ rendered' = ~returnsNull(fl)
    /\ notice' = IF returnsNull(fl) THEN NoMeta
                 ELSE DataFeedbackMetadata(fl, filteredFlights')

-----------------------------------------------------------------------------
(* App: the state handlers of App.jsx.  An awaited service call is a       *)
(* request [kind, iata, type, start, end, query]; its continuation runs    *)
(* when the call settles.                                                  *)

NoError == <<>>
msg_NoFlights    == "Inga flyg hittades foer valda parametrar."
msg_FetchFailed  == "Kunde inte haemta data fraan Swedavia."
msg_SearchFailed == "Ett fel uppstod vid haemtning av flyg."

DEFAULT_TITLE == <<"V","ae","l","j"," ","f","l","y","g","p","l","a","t","s"," ","f","oe","r"," ","a","t","t"," ","s","e"," ","f","l","y","g">>

\* `${typeLabel} vid ${iata} ${dateLabel}`
airportTitle(ty, iata, start, end) ==
    LET typeLabel == IF ty = "arrivals" THEN <<"A","n","k","o","m","s","t","e","r">>
                     ELSE <<"A","v","g","aa","n","g","a","r">>
        dateLabel == IF start = end THEN IsoText(start)
                     ELSE IsoText(start) \o <<" ","-"," ">> \o IsoText(end)
    IN  typeLabel \o <<" ","v","i","d"," ">> \o iata \o <<" ">> \o dateLabel

\* `Sökresultat för ${query}`
searchTitleOf(query) == <<"S","oe","k","r","e","s","u","l","t","a","t"," ","f","oe","r"," ">> \o query

\* by names the handler that issued the call: "select", "toggle", "date", "search"
Req(kind, iata, ty, start, end, query, by) ==
    [kind |-> kind, iata |-> iata, type |-> ty, start |-> start, end |-> end,
     query |-> query, by |-> by]

\* the useMemo showStatistics
showStatistics ==
    IF Len(flights.items) = 0
          /\ (flights.meta = NoMeta \/ Len(flights.meta[1].missingDates) = 0)
    THEN FALSE
    ELSE currentAirport # <<>> /\ (Len(flights.items) > 0 \/ loading)

\* handleAirportSelect(iata, start, end) up to its await, with the type of
\* the render it was created in
beginAirportSelect(iata, ty, start, end, by) ==
    /\ issued < MaxRequests
    /\ issued' = issued + 1
    /\ currentAirport' = iata
    /\ loading' = TRUE
    /\ error' = NoError
    /\ searchTitle' = airportTitle(ty, iata, start, end)
    /\ inFlight' = Append(inFlight, Req("airport", iata, ty, start, end, <<>>, by))
    /\ lastReq' = <<[req |-> Req("airport", iata, ty, start, end, <<>>, by), result |-> <<>>]>>
    /\ errorFrom' = <<>>
    /\ UNCHANGED flights

\* the rest of a handler once its call i settled with res: try, catch, finally
settle(i, res, outs, caught) ==
    LET r == inFlight[i]
        noFlights ==
            /\ Len(res.data.items) = 0
            /\ \/ r.kind = "search"
               \/ res.data.meta = NoMeta
               \/ Len(res.data.meta[1].missingDates) = res.data.meta[1].totalDates
    IN  /\ inFlight' = [k \in 1..(Len(inFlight) - 1) |->
                           IF k < i THEN inFlight[k] ELSE inFlight[k + 1]]
        /\ loading' = FALSE
        /\ IF res.threw
           THEN /\ error' = <<caught>>
                /\ errorFrom' = <<[req |-> r, outs |-> outs]>>
                /\ UNCHANGED flights
           ELSE /\ flights' = res.data
                /\ IF noFlights
                   THEN /\ error' = <<msg_NoFlights>>
                        /\ errorFrom' = <<[req |-> r, outs |-> outs]>>
                   ELSE UNCHANGED <<error, errorFrom>>
        /\ lastReq' = IF i = Len(inFlight) /\ lastReq[1].result = <<>>
                      THEN <<[req |-> r, result |-> <<res>>]>>
                      ELSE lastReq
        /\ UNCHANGED <<searchTitle, type, currentAirport, startDate, endDate, issued>>

\* e.message || 'Kunde inte hämta data från Swedavia.'
messageOr(res) == IF res.message = "" THEN msg_FetchFailed ELSE res.message

-----------------------------------------------------------------------------
(* Favorites (swedaviaService.getFavorites, toggleFavorite).  The item of   *)
(* localStorage is the JSON text of an array of flight ids.                 *)

Quote == "dq"

RECURSIVE stringifyItems(_)
stringifyItems(ids) ==
    IF ids = <<>> THEN <<>>
    ELSE <<Quote>> \o Head(ids) \o <<Quote>> \o
         (IF Len(ids) > 1 THEN <<",">> ELSE <<>>) \o stringifyItems(Tail(ids))

\* JSON.stringify of an array of ids
JSONstringify(ids) == <<"[">> \o stringifyItems(ids) \o <<"]">>

\* the array items of a JSON text from position p on; cur is <<>> outside a
\* string and <<the characters read>> inside one; the result is
\* [ok, value], ok false on a text JSON.parse throws on
RECURSIVE parseItems(_, _, _, _, _)
parseItems(text, p, acc, cur, expectItem) ==
    IF p > Len(text) THEN [ok |-> FALSE, value |-> <<>>]
    ELSE LET c == text[p]
         IN  IF cur # <<>>
             THEN IF c = Quote
                  THEN parseItems(text, p + 1, Append(acc, cur[1]), <<>>, FALSE)
                  ELSE parseItems(text, p + 1, acc, <<Append(cur[1], c)>>, FALSE)
             ELSE IF c = Quote /\ expectItem
                  THEN parseItems(text, p + 1, acc, <<<<>>>>, FALSE)
             ELSE IF c = "," /\ ~expectItem /\ acc # <<>>
                  THEN parseItems(text, p + 1, acc, <<>>, TRUE)
             ELSE IF c = "]" /\ p = Len(text) /\ (~expectItem \/ acc = <<>>)
                  THEN [ok |-> TRUE, value |-> acc]
             ELSE [ok |-> FALSE, value |-> <<>>]

\* JSON.parse of the text of an array of strings
JSONparse(text) ==
    IF Len(text) < 2 \/ text[1] # "[" THEN [ok |-> FALSE, value |-> <<>>]
    ELSE parseItems(text, 2, <<>>, <<>>, TRUE)

\* getFavorites() for the item of localStorage
getFavorites(item) ==
    IF item = <<>> \/ item[1] = <<>> THEN <<>>
    ELSE IF JSONparse(item[1]).ok THEN JSONparse(item[1]).value
    ELSE <<>>

\* favs.indexOf(flightId), counted from 1; 0 when it is not found
indexOf(ids, flightId) ==
    IF \E i \in 1..Len(ids) : ids[i] = flightId
    THEN CHOOSE i \in 1..Len(ids) : ids[i] = flightId /\ \A j \in 1..(i - 1) : ids[j] # flightId
    ELSE 0

\* favs.splice(index, 1)
splice1(ids, index) == SubSeq(ids, 1, index - 1) \o SubSeq(ids, index + 1, Len(ids))

\* toggleFavorite that always pushes
toggled_AlwaysPushes(ids, flightId) == Append(ids, flightId)

\* the array toggleFavorite makes of favs
toggled(ids, flightId) ==
    IF indexOf(ids, flightId) > 0 THEN splice1(ids, indexOf(ids, flightId))
    ELSE Append(ids, flightId)

\* toggleFavorite(flightId): [item, returned], the item it stores and the
\* array it returns
toggleFavorite(item, flightId) ==
    LET favs == toggled(getFavorites(item), flightId)
    IN  [item |-> <<JSONstringify(favs)>>, returned |-> favs]

-----------------------------------------------------------------------------
(* FlightList's sortedFlights: [...flights].sort(comparator), a stable sort *)

\* the place of a character of a time text in the collation order
\* localeCompare uses: punctuation before the digits
collationRank(c) ==
    IF c = "-" THEN 1
    ELSE IF c = ":" THEN 2
    ELSE 2 + CHOOSE k \in 1..Len(Digits) : Digits[k] = c

\* a.localeCompare(b): negative, zero or positive
RECURSIVE localeCompare(_, _)
localeCompare(a, b) ==
    IF a = <<>> /\ b = <<>> THEN 0
    ELSE IF a = <<>> THEN -1
    ELSE IF b = <<>> THEN 1
    ELSE IF collationRank(Head(a)) < collationRank(Head(b)) THEN -1
    ELSE IF collationRank(Head(a)) > collationRank(Head(b)) THEN 1
    ELSE localeCompare(Tail(a), Tail(b))

\* a comparator that looks at the time only
compareFlights_TimeOnly(a, b, favs) == localeCompare(a.time, b.time)

\* the comparator of sortedFlights
compareFlights(a, b, favs) ==
    LET aFav == indexOf(favs, a.id) > 0
        bFav == indexOf(favs, b.id) > 0
    IN  IF aFav /\ ~bFav THEN -1
        ELSE IF ~aFav /\ bFav THEN 1
        ELSE localeCompare(a.time, b.time)

\* x put into the sorted acc behind the last element that does not come
\* after it
insertSorted(acc, x, favs) ==
    LET notAfter == {i \in 1..Len(acc) : compareFlights(acc[i], x, favs) <= 0}
        at == IF notAfter = {} THEN 0
              ELSE CHOOSE i \in notAfter : \A j \in notAfter : j <= i
    IN  SubSeq(acc, 1, at) \o <<x>> \o SubSeq(acc, at + 1, Len(acc))

RECURSIVE stableSort(_, _, _)
stableSort(acc, rest, favs) ==
    IF rest = <<>> THEN acc
    ELSE stableSort(insertSorted(acc, Head(rest), favs), Tail(rest), favs)

\* useMemo sortedFlights of the flights prop and the favorites state
sortedFlights == stableSort(<<>>, flights.items, listFavorites)

-----------------------------------------------------------------------------
(* Initial conditions *)

\* Before the first fetch App does not mount the panel: nothing is rendered.
InitPanel ==
    /\ pFlights = Coll(<<>>, NoMeta)
    /\ filter = <<>>
    /\ filteredFlights = Coll(<<>>, NoMeta)
    /\ stats = NoStats
    /\ rendered = FALSE
    /\ notice = NoMeta

InitFilter ==
    /\ refiltered = <<>>
    /\ svcCall = <<>>

InitRangeIdle ==
    /\ tz = "UTC"
    /\ rStart = <<2026, 1, 13>>
    /\ rEnd = <<2026, 1, 13>>
    /\ rOutcomes = <<>>
    /\ rCall = <<>>

InitMapIdle ==
    /\ mapAirport = iata_ARN
    /\ mapCounts = <<>>
    /\ routes = <<>>

InitMap ==
    /\ mapAirport = iata_ARN
    /\ mapCounts = <<>>
    /\ routes = <<>>

InitRoutesIdle ==
    /\ selectedRoute = Null
    /\ routeFlights = <<>>

InitTransformIdle ==
    /\ provided = RawFlight(iata_ARN, "arrivals", <<2026, 1, 13>>)
    /\ normalized = <<>>

InitFavsIdle ==
    /\ storage = <<>>
    /\ listFavorites = <<>>
    /\ statsMounted = FALSE
    /\ statsFavorites = <<>>
    /\ lastToggle = <<>>

InitTopIdle ==
    /\ topItems = <<>>
    /\ topResult = <<>>

\* App before the first interaction, on 2026-01-13
InitApp ==
    /\ flights = Coll(<<>>, NoMeta)
    /\ loading = FALSE
    /\ error = NoError
    /\ searchTitle = DEFAULT_TITLE
    /\ type = "arrivals"
    /\ currentAirport = <<>>
    /\ startDate = <<2026, 1, 13>>
    /\ endDate = <<2026, 1, 13>>
    /\ inFlight = <<>>
    /\ lastReq = <<>>
    /\ errorFrom = <<>>
    /\ issued = 0

InitRange ==
    /\ tz \in TimeZones
    /\ rStart \in RangeStarts
    /\ \E k \in 0..MaxSpan : rEnd = IsoOfDay(DayOfYear(rStart) + k)
    /\ rOutcomes = <<>>
    /\ rCall = <<>>

-----------------------------------------------------------------------------
(* SpecStats: the panel over flights that differ in status text and        *)
(* timestamps.                                                             *)

StatsLoad(f) ==
    /\ Len(pFlights.items) < MaxFlights
    /\ Render(Coll(Append(pFlights.items, f), NoMeta), filter)
    /\ UNCHANGED <<filterVars, notPanel>>

NextStats == \E f \in StatusFlights : StatsLoad(f)

InitStats == InitPanel /\ InitFilter /\ InitRangeIdle /\ InitMapIdle /\ InitApp /\ InitTopIdle /\ InitRoutesIdle /\ InitTransformIdle /\ InitFavsIdle

SpecStats == InitStats /\ [][NextStats]_vars

-----------------------------------------------------------------------------
(* SpecFilter: the panel over flights that differ in id, destination and   *)
(* airline, with range metadata, and the filter text typed by the user.    *)

\* new props.flights: one more flight, with the metadata of its fetch
FilterLoad(f, meta) ==
    /\ Len(pFlights.items) < MaxFlights
    /\ Render(Coll(Append(pFlights.items, f), meta), filter)
    /\ refiltered' = <<>>
    /\ svcCall' = <<>>
    /\ UNCHANGED notPanel

\* onChange of the filter input: setFilter(e.target.value)
SetFilter(q) ==
    /\ q # filter
    /\ Render(pFlights, q)
    /\ refiltered' = <<>>
    /\ svcCall' = <<>>
    /\ UNCHANGED notPanel

\* the filter applied to its own result with the same query
Refilter ==
    /\ refiltered' = <<filterFlightsByQuery(filteredFlights, filter)>>
    /\ UNCHANGED <<panelVars, svcCall, notPanel>>

\* searchFlight's filterFlights(all, query) on the same flights and query
ServiceFilter ==
    /\ svcCall' = <<filterFlights(pFlights.items, filter)>>
    /\ UNCHANGED <<panelVars, refiltered, notPanel>>

NextFilter ==
    \/ \E f \in TextFlights, m \in Metas : FilterLoad(f, m)
    \/ \E q \in Queries : SetFilter(q)
    \/ Refilter
    \/ ServiceFilter

InitFilterSpec == InitPanel /\ InitFilter /\ InitRangeIdle /\ InitMapIdle /\ InitApp /\ InitTopIdle /\ InitRoutesIdle /\ InitTransformIdle /\ InitFavsIdle

SpecFilter == InitFilterSpec /\ [][NextFilter]_vars


-----------------------------------------------------------------------------
(* SpecRange: one range fetch, in either time zone *)

\* the call and the resolution of its per-date fetches
RangeFetch ==
    /\ rCall = <<>>
    /\ LET dates == enumerateDates(tz, rStart, rEnd)
       IN  \E outs \in [1..Len(dates) -> Outcomes] :
              /\ rOutcomes' = outs
              /\ rCall' = <<[dates |-> dates, result |-> getFlightsInRange(iata_ARN, "arrivals", dates, outs)]>>
    /\ UNCHANGED <<tz, rStart, rEnd, notRange>>

NextRange == RangeFetch

InitRangeSpec == InitPanel /\ InitFilter /\ InitRange /\ InitMapIdle /\ InitApp /\ InitTopIdle /\ InitRoutesIdle /\ InitTransformIdle /\ InitFavsIdle

SpecRange == InitRangeSpec /\ [][NextRange]_vars


-----------------------------------------------------------------------------
(* SpecMap: the route aggregation, one filtered flight at a time, and the  *)
(* routes FlightMap draws.                                                 *)

\* the filtered flights gain the flight f
MapLoad(f) ==
    /\ \A i \in 1..Len(mapCounts) :
          mapCounts[i].iata = farEnd(f) => mapCounts[i].count < MaxRouteCount
    /\ mapCounts' = countRoute(mapCounts, f, mapAirport)
    /\ routes' = FlightMapRoutes(mapAirport, destinationsOf(mapCounts'))
    /\ UNCHANGED <<mapAirport, notMap>>

NextMap == \E f \in MapFlights : MapLoad(f)

InitMapSpec == InitPanel /\ InitFilter /\ InitRangeIdle /\ InitMap /\ InitApp /\ InitTopIdle /\ InitRoutesIdle /\ InitTransformIdle /\ InitFavsIdle

SpecMap == InitMapSpec /\ [][NextMap]_vars


-----------------------------------------------------------------------------
(* SpecRate: the panel over lists of delayed and landed flights, long      *)
(* enough for delay rates that need rounding, with and without a filter    *)
(* that matches no flight.                                                 *)

f_Delayed == Flight(id_SK100, al_SAS, dest_London, st_Forsenat, NoTs, NoTs, NoTs,
                    "Arrival", iata_LHR, iata_ARN)

RateFlights == {f_London, f_Delayed}

RateLoad(f) ==
    /\ Len(pFlights.items) < MaxRateFlights
    /\ Render(Coll(Append(pFlights.items, f), NoMeta), filter)
    /\ UNCHANGED <<filterVars, notPanel>>

RateFilter(q) ==
    /\ q # filter
    /\ Render(pFlights, q)
    /\ UNCHANGED <<filterVars, notPanel>>

NextRate ==
    \/ \E f \in RateFlights : RateLoad(f)
    \/ \E q \in {<<>>, q_xyz} : RateFilter(q)

InitRateSpec == InitPanel /\ InitFilter /\ InitRangeIdle /\ InitMapIdle /\ InitApp /\ InitTopIdle /\ InitRoutesIdle /\ InitTransformIdle /\ InitFavsIdle

SpecRate == InitRateSpec /\ [][NextRate]_vars

-----------------------------------------------------------------------------
(* SpecRoutes: the panel with its route map and the selection of a route,  *)
(* by a click on the map or on a top destination.                          *)

\* what a render derives from the filtered flights and the selected route;
\* the map is mounted when the panel shows statistics
RenderRoutes(route) ==
    /\ selectedRoute' = route
    /\ mapCounts' = routeCounts(filteredFlights'.items, mapAirport)
    /\ routes' = IF rendered' /\ stats' # NoStats
                 THEN FlightMapRoutes(mapAirport, destinationsOf(mapCounts'))
                 ELSE <<>>
    /\ routeFlights' = routeFlightsOf(route, filteredFlights'.items)
    /\ UNCHANGED <<mapAirport, notRoutes>>

\* new props.flights
RoutesLoad(f) ==
    /\ Len(pFlights.items) < MaxFlights
    /\ Render(Coll(Append(pFlights.items, f), NoMeta), filter)
    /\ RenderRoutes(selectedRoute)

\* setFilter
RoutesFilter(q) ==
    /\ rendered
    /\ q # filter
    /\ Render(pFlights, q)
    /\ RenderRoutes(selectedRoute)

\* a click on route i of the map: onDestinationSelect(route.iata)
ClickRoute(i) ==
    /\ Render(pFlights, filter)
    /\ RenderRoutes(routes[i].iata)

\* a click on entry k of the top destinations: setSelectedRoute(dest)
ClickTopDestination(k) ==
    /\ rendered
    /\ Render(pFlights, filter)
    /\ RenderRoutes(stats[1].topDestinations[k][1])

\* the modal's onClose: setSelectedRoute(null)
CloseRoute ==
    /\ selectedRoute # Null /\ selectedRoute # <<>>
    /\ Render(pFlights, filter)
    /\ RenderRoutes(Null)

RouteQueries == {<<>>, q_SAS}

NextRoutes ==
    \/ \E f \in MapFlights : RoutesLoad(f)
    \/ \E q \in RouteQueries : RoutesFilter(q)
    \/ \E i \in 1..Len(routes) : ClickRoute(i)
    \/ \E k \in 1..(IF stats = NoStats THEN 0 ELSE Len(stats[1].topDestinations)) :
           ClickTopDestination(k)
    \/ CloseRoute

InitRoutes ==
    /\ mapAirport \in {iata_ARN, iata_GOT}
    /\ mapCounts = <<>>
    /\ routes = <<>>
    /\ selectedRoute = Null
    /\ routeFlights = <<>>

InitRoutesSpec == InitPanel /\ InitFilter /\ InitRangeIdle /\ InitRoutes /\ InitApp /\ InitTopIdle /\ InitTransformIdle /\ InitFavsIdle

SpecRoutes == InitRoutesSpec /\ [][NextRoutes]_vars

-----------------------------------------------------------------------------
(* SpecTransform: transformFlight over the provider's records, each        *)
(* optional object and each optional field present or missing.             *)

gate_A5 == <<"A","5">>
terminal_5 == <<"5">>

\* locationAndStatus: missing, or an object with each field present or not
RawLocations ==
    {<<>>} \cup
    {<<[flightLegStatusSwedish |-> s, gate |-> g, terminal |-> t]>> :
        s \in {Absent, st_Landat}, g \in {Absent, gate_A5}, t \in {Absent, terminal_5}}

\* arrivalTime: missing, without scheduledUtc, with a timestamp, with an
\* actual time 20 minutes after the scheduled one, with a date
RawArrivalTimes ==
    {<<>>, <<[scheduledUtc |-> Absent]>>,
     <<[scheduledUtc |-> IsoTimestamp(<<2026, 1, 13>>, 10, 0)]>>,
     <<[scheduledUtc |-> IsoTimestamp(<<2026, 1, 13>>, 10, 0),
        actualUtc |-> IsoTimestamp(<<2026, 1, 13>>, 10, 20)]>>,
     <<[scheduledUtc |-> IsoText(<<2026, 1, 13>>)]>>}

RawDepartureTimes == {<<>>, <<[scheduledUtc |-> IsoTimestamp(<<2026, 1, 13>>, 18, 45)]>>}

RawAirlines == {<<>>, <<[name |-> Absent]>>, <<[name |-> al_SAS]>>}

RawLegs == {<<>>, <<[departureAirportIata |-> iata_LHR, arrivalAirportIata |-> iata_ARN]>>}

RawRecords ==
    {[flightId |-> id_SK100, airlineOperator |-> a,
      departureAirportSwedish |-> dest_London, arrivalAirportSwedish |-> name_Stockholm,
      flightLegIdentifier |-> l, arrivalTime |-> at, departureTime |-> dt,
      locationAndStatus |-> las] :
        a \in RawAirlines, l \in RawLegs, at \in RawArrivalTimes,
        dt \in RawDepartureTimes, las \in RawLocations}

\* the provider hands over a record
Provide(r) ==
    /\ provided' = r
    /\ normalized' = <<>>
    /\ UNCHANGED notXform

\* (data.flights ?? []).map((f) => transformFlight(f, type)) on the record
Normalize(ty) ==
    /\ normalized' = <<transformFlight(provided, ty)>>
    /\ UNCHANGED <<provided, notXform>>

NextTransform ==
    \/ \E r \in RawRecords : Provide(r)
    \/ \E ty \in {"arrivals", "departures"} : Normalize(ty)

InitTransformSpec == InitPanel /\ InitFilter /\ InitRangeIdle /\ InitMapIdle /\ InitApp /\ InitTopIdle /\ InitRoutesIdle /\ InitTransformIdle /\ InitFavsIdle

SpecTransform == InitTransformSpec /\ [][NextTransform]_vars

-----------------------------------------------------------------------------
(* SpecFavs: the favorites store, FlightList (always mounted) and the      *)
(* statistics panel (mounted and unmounted by App), stars clicked in        *)
(* either, and page reloads.                                                *)

FavIds == {id_SK100, id_SK200, id_DY300}

\* the star of a flight card in the flight list
ListToggle(flightId) ==
    /\ LET t == toggleFavorite(storage, flightId)
       IN  /\ storage' = t.item
           /\ listFavorites' = t.returned
           /\ lastToggle' = <<[id |-> flightId, before |-> getFavorites(storage),
                               returned |-> t.returned]>>
    /\ UNCHANGED <<statsMounted, statsFavorites, notFavs>>

\* the star of a flight card in the route-flights modal of the panel
StatsToggle(flightId) ==
    /\ statsMounted
    /\ LET t == toggleFavorite(storage, flightId)
       IN  /\ storage' = t.item
           /\ statsFavorites' = t.returned
           /\ lastToggle' = <<[id |-> flightId, before |-> getFavorites(storage),
                               returned |-> t.returned]>>
    /\ UNCHANGED <<statsMounted, listFavorites, notFavs>>

\* showStatistics becomes true: the panel mounts and reads the store
MountStats ==
    /\ ~statsMounted
    /\ statsMounted' = TRUE
    /\ statsFavorites' = getFavorites(storage)
    /\ UNCHANGED <<storage, listFavorites, lastToggle, notFavs>>

\* showStatistics becomes false
UnmountStats ==
    /\ statsMounted
    /\ statsMounted' = FALSE
    /\ statsFavorites' = <<>>
    /\ UNCHANGED <<storage, listFavorites, lastToggle, notFavs>>

\* the page is reloaded: a fresh session over the same localStorage
Reload ==
    /\ listFavorites' = getFavorites(storage)
    /\ statsMounted' = FALSE
    /\ statsFavorites' = <<>>
    /\ lastToggle' = <<>>
    /\ UNCHANGED <<storage, notFavs>>

NextFavs ==
    \/ \E flightId \in FavIds : ListToggle(flightId)
    \/ \E flightId \in FavIds : StatsToggle(flightId)
    \/ MountStats
    \/ UnmountStats
    \/ Reload

InitFavsSpec == InitPanel /\ InitFilter /\ InitRangeIdle /\ InitMapIdle /\ InitApp /\ InitTopIdle /\ InitRoutesIdle /\ InitTransformIdle /\ InitFavsIdle

SpecFavs == InitFavsSpec /\ [][NextFavs]_vars

-----------------------------------------------------------------------------
(* SpecSort: FlightList over the flights App hands it, with stars clicked  *)
(* in the list.  Two flights share a time and one has none.                 *)

AtTime(f, hh, mm) == [f EXCEPT !.time = Pad2(hh) \o <<":">> \o Pad2(mm)]

ListFlights ==
    {AtTime(f_London, 10, 0), AtTime(f_Madrid, 10, 0), AtTime(f_Oslo, 9, 30), f_NoDest}

\* App hands FlightList a new flights array: one flight more, or none
ListLoad(fs) ==
    /\ flights' = Coll(fs, NoMeta)
    /\ UNCHANGED <<loading, error, searchTitle, type, currentAirport, startDate, endDate,
                   inFlight, lastReq, errorFrom, issued, notApp>>

NextSort ==
    \/ \E f \in ListFlights :
          Len(flights.items) < MaxListed /\ ListLoad(Append(flights.items, f))
    \/ ListLoad(<<>>)
    \/ \E flightId \in FavIds : ListToggle(flightId)

InitSortSpec == InitPanel /\ InitFilter /\ InitRangeIdle /\ InitMapIdle /\ InitApp /\ InitTopIdle /\ InitRoutesIdle /\ InitTransformIdle /\ InitFavsIdle

SpecSort == InitSortSpec /\ [][NextSort]_vars

-----------------------------------------------------------------------------
(* SpecTop: getTopItems over a growing list of flights.  Destination names *)
(* are interchangeable, so a name not yet in the list is always the next   *)
(* of TopNames; undefined and every name already in the list may recur.    *)

dest_Paris  == <<"P","a","r","i","s">>
dest_Berlin == <<"B","e","r","l","i","n">>
dest_Rom    == <<"R","o","m">>

TopNames == <<dest_London, dest_Madrid, dest_Oslo, dest_Amman, dest_Paris,
              dest_Berlin, dest_Rom>>

\* the names in the list so far
NamesSeen == {topItems[i].destination : i \in 1..Len(topItems)} \ {Absent}

\* the destinations the next item may have
NextNames ==
    NamesSeen \cup {Absent}
        \cup (IF Cardinality(NamesSeen) < Len(TopNames)
              THEN {TopNames[Cardinality(NamesSeen) + 1]} ELSE {})

\* one more item, and getTopItems(items, 'destination') of the list
TopAdd(v) ==
    /\ Len(topItems) < MaxItems
    /\ topItems' = Append(topItems, TextFlight(id_SK100, al_SAS, v, iata_LHR))
    /\ topResult' = getTopItems(topItems', "destination")
    /\ UNCHANGED notTop

NextTop == \E v \in NextNames : TopAdd(v)

InitTopSpec == InitPanel /\ InitFilter /\ InitRangeIdle /\ InitMapIdle /\ InitApp /\ InitTopIdle /\ InitRoutesIdle /\ InitTransformIdle /\ InitFavsIdle

SpecTop == InitTopSpec /\ [][NextTop]_vars

-----------------------------------------------------------------------------
(* Spec: the App, its handlers and the settling of the calls they await,   *)
(* in any order.                                                           *)

AppAirports == {iata_ARN, iata_GOT}
AppDates == {<<2026, 1, 13>>, <<2026, 1, 14>>}
SearchQueries == {q_lond, q_xyz}

\* SearchCard's select: onAirportSelect(iata)
SelectAirport(iata) ==
    /\ beginAirportSelect(iata, type, startDate, endDate, "select")
    /\ UNCHANGED <<type, startDate, endDate, notApp>>

\* toggleType, and the effect on [type] of the render that follows
ToggleType ==
    /\ type' = IF type = "arrivals" THEN "departures" ELSE "arrivals"
    /\ IF currentAirport # <<>>
       THEN beginAirportSelect(currentAirport, type', startDate, endDate, "toggle")
       ELSE UNCHANGED <<flights, loading, error, searchTitle, currentAirport,
                        inFlight, lastReq, errorFrom, issued>>
    /\ UNCHANGED <<startDate, endDate, notApp>>

\* handleStartDateChange, from the date input of the statistics panel
StartDateChange(newDate) ==
    /\ showStatistics
    /\ newDate # startDate
    /\ startDate' = newDate
    /\ endDate' = IF DayOfYear(newDate) > DayOfYear(endDate) THEN newDate ELSE endDate
    /\ IF currentAirport # <<>>
       THEN beginAirportSelect(currentAirport, type, newDate, endDate', "date")
       ELSE UNCHANGED <<flights, loading, error, searchTitle, currentAirport,
                        inFlight, lastReq, errorFrom, issued>>
    /\ UNCHANGED <<type, notApp>>

\* handleEndDateChange
EndDateChange(newDate) ==
    /\ showStatistics
    /\ newDate # endDate
    /\ endDate' = newDate
    /\ IF currentAirport # <<>>
       THEN beginAirportSelect(currentAirport, type, startDate, newDate, "date")
       ELSE UNCHANGED <<flights, loading, error, searchTitle, currentAirport,
                        inFlight, lastReq, errorFrom, issued>>
    /\ UNCHANGED <<type, startDate, notApp>>

\* SearchCard's form: handleManualSearch(query, date) up to its await
ManualSearch(query, date) ==
    /\ query # <<>>
    /\ issued < MaxRequests
    /\ issued' = issued + 1
    /\ loading' = TRUE
    /\ error' = NoError
    /\ searchTitle' = searchTitleOf(query)
    /\ inFlight' = Append(inFlight, Req("search", iata_ARN, "both", date, date, query, "search"))
    /\ lastReq' = <<[req |-> Req("search", iata_ARN, "both", date, date, query, "search"),
                     result |-> <<>>]>>
    /\ errorFrom' = <<>>
    /\ UNCHANGED <<flights, type, currentAirport, startDate, endDate, notApp>>

\* getFlights of a single-date selection settles
SettleSingle(i, o) ==
    /\ inFlight[i].kind = "airport"
    /\ inFlight[i].start = inFlight[i].end
    /\ LET r   == inFlight[i]
           res == getFlights(r.iata, r.type, r.start, o)
       IN  settle(i, res, <<o>>, messageOr(res))
    /\ UNCHANGED notApp

\* getFlightsInRange settles
SettleRange(i) ==
    /\ inFlight[i].kind = "airport"
    /\ inFlight[i].start # inFlight[i].end
    /\ LET r     == inFlight[i]
           dates == enumerateDates(tz, r.start, r.end)
       IN  \E outs \in [1..Len(dates) -> Outcomes] :
              LET res == getFlightsInRange(r.iata, r.type, dates, outs)
              IN  settle(i, res, outs, messageOr(res))
    /\ UNCHANGED notApp

\* searchFlight settles
SettleSearch(i, oArr, oDep) ==
    /\ inFlight[i].kind = "search"
    /\ LET r == inFlight[i]
       IN  settle(i, searchFlight(r.query, r.start, oArr, oDep), <<oArr, oDep>>,
                  msg_SearchFailed)
    /\ UNCHANGED notApp

Next ==
    \/ \E iata \in AppAirports : SelectAirport(iata)
    \/ ToggleType
    \/ \E d \in AppDates : StartDateChange(d)
    \/ \E d \in AppDates : EndDateChange(d)
    \/ \E q \in SearchQueries : ManualSearch(q, <<2026, 1, 13>>)
    \/ \E i \in 1..Len(inFlight), o \in SingleOutcomes : SettleSingle(i, o)
    \/ \E i \in 1..Len(inFlight) : SettleRange(i)
    \/ \E i \in 1..Len(inFlight), oArr \in Outcomes, oDep \in Outcomes :
           SettleSearch(i, oArr, oDep)

Init == InitPanel /\ InitFilter /\ InitRangeIdle /\ InitMapIdle /\ InitApp /\ InitTopIdle /\ InitRoutesIdle /\ InitTransformIdle /\ InitFavsIdle

Spec == Init /\ [][Next]_vars

\* SpecRefetch: one airport selected and re-fetched from the date inputs of
\* the statistics panel
NextRefetch ==
    \/ SelectAirport(iata_ARN)
    \/ \E d \in AppDates : StartDateChange(d)
    \/ \E d \in AppDates : EndDateChange(d)
    \/ \E i \in 1..Len(inFlight), o \in SingleOutcomes : SettleSingle(i, o)
    \/ \E i \in 1..Len(inFlight) : SettleRange(i)

SpecRefetch == Init /\ [][NextRefetch]_vars

-----------------------------------------------------------------------------
(* Claims on the status classification, checked under SpecStats *)

Buckets == {"landed", "delayed", "cancelled", "onTime"}

hasMarker(f, m) == includes(toLowerCase(OrEmpty(f.status)), m)

\* seconds of the day of a timestamp
SecondsOf(ts) == ts[1] * 3600 + ts[2] * 60 + ts[3]

\* "scheduledUtc and (actualUtc, else estimatedUtc) are both present and the
\* latter is >= 15 minutes after scheduled"
LateByTimestamps(f) ==
    /\ f.scheduledUtc # NoTs
    /\ \/ /\ f.actualUtc # NoTs
          /\ SecondsOf(f.actualUtc) >= SecondsOf(f.scheduledUtc) + 15 * 60
       \/ /\ f.actualUtc = NoTs
          /\ f.estimatedUtc # NoTs
          /\ SecondsOf(f.estimatedUtc) >= SecondsOf(f.scheduledUtc) + 15 * 60

\* the bucket the claim gives a flight, in its priority order
ClaimedBucket(f) ==
    CASE hasMarker(f, txt_landat) -> "landed"
      [] ~hasMarker(f, txt_landat)
           /\ (hasMarker(f, txt_delayed) \/ hasMarker(f, txt_forsenat)
                 \/ LateByTimestamps(f)) -> "delayed"
      [] OTHER ->
           IF hasMarker(f, txt_cancelled) \/ hasMarker(f, txt_installt)
           THEN "cancelled" ELSE "onTime"

ClaimedCount(items, b) ==
    Cardinality({i \in 1..Len(items) : ClaimedBucket(items[i]) = b})

OnTimeLateBy(f, actual) ==
    /\ f.status = st_OnTime
    /\ f.scheduledUtc = T1000
    /\ f.actualUtc = actual

\* C2: calculateStatusCounts counts every flight in the bucket the priority
\* order landed > delayed (by text or by a timestamp >= 15 minutes late) >
\* cancelled > onTime gives it; an 'On Time' flight 20 or exactly 15 minutes
\* late is counted delayed, one 14 minutes late is not.
C2_StatusPriority ==
    stats # NoStats =>
        /\ \A b \in Buckets :
              stats[1].statusCounts[b] = ClaimedCount(filteredFlights.items, b)
        /\ \A late \in {<<10, 20, 0>>, <<10, 15, 0>>} :
              (Len(filteredFlights.items) = 1
                  /\ OnTimeLateBy(filteredFlights.items[1], late))
              => stats[1].statusCounts.delayed = 1
        /\ (Len(filteredFlights.items) = 1
               /\ OnTimeLateBy(filteredFlights.items[1], <<10, 14, 59>>))
              => (stats[1].statusCounts.delayed = 0 /\ stats[1].statusCounts.onTime = 1)

\* an 'On Time' flight exactly 15 minutes late has been counted, as delayed
C2_Witness ==
    /\ stats # NoStats
    /\ Len(filteredFlights.items) = 1
    /\ OnTimeLateBy(filteredFlights.items[1], <<10, 15, 0>>)
    /\ stats[1].statusCounts.delayed = 1

\* C3: for every non-empty filtered collection there is a snapshot and its
\* four status counts add up to its total, the number of filtered flights.
C3_CountsSumToTotal ==
    Len(filteredFlights.items) > 0 =>
        /\ stats # NoStats
        /\ stats[1].total = Len(filteredFlights.items)
        /\ stats[1].statusCounts.landed + stats[1].statusCounts.delayed
             + stats[1].statusCounts.cancelled + stats[1].statusCounts.onTime
           = stats[1].total

\* a snapshot of two flights, one landed and late, one cancelled
C3_Witness ==
    /\ stats # NoStats
    /\ stats[1].total = 2
    /\ stats[1].statusCounts.landed = 1
    /\ stats[1].statusCounts.cancelled = 1
    /\ \E i \in 1..2 : /\ filteredFlights.items[i].status = st_Landat
                       /\ filteredFlights.items[i].actualUtc = <<10, 20, 0>>

-----------------------------------------------------------------------------
(* Claims on the query filter, checked under SpecFilter *)

\* text contains q as a case-insensitive substring (an absent text contains
\* nothing)
ContainsCI(text, q) ==
    /\ text # Absent
    /\ \E i \in 1..(Len(text) + 1), j \in 0..Len(text) :
          /\ j - i + 1 = Len(q)
          /\ toLowerCase(SubSeq(text, i, j)) = toLowerCase(q)

\* some alias of a country whose name contains q occurs in the destination
AliasOfMatchingCountry(f, q) ==
    \E c \in 1..Len(COUNTRY_MAPPING) :
        /\ ContainsCI(COUNTRY_MAPPING[c][1], q)
        /\ \E a \in 1..Len(COUNTRY_MAPPING[c][2]) :
              ContainsCI(f.destination, COUNTRY_MAPPING[c][2][a])

ClaimedMatch(f, q) ==
    \/ ContainsCI(f.id, q)
    \/ ContainsCI(f.destination, q)
    \/ ContainsCI(f.airline, q)
    \/ AliasOfMatchingCountry(f, q)

\* the flights of items the claim selects, in input order
ClaimedSelection(items, q) ==
    LET keep(f) == ClaimedMatch(f, q) IN SelectSeq(items, keep)

AllText(items) ==
    \A i \in 1..Len(items) :
        Absent \notin {items[i].id, items[i].destination, items[i].airline}

C8_FilterIdempotent ==
    refiltered # <<>> => refiltered[1] = filteredFlights

\* a query that keeps one of two flights, applied twice
C8_Witness ==
    /\ refiltered # <<>>
    /\ filter = q_Stor
    /\ Len(pFlights.items) = 2
    /\ Len(filteredFlights.items) = 1
    /\ refiltered[1].items = filteredFlights.items

\* C9: whatever the filter text, the metadata handed to the missing-dates
\* notice is the metadata of the fetched collection.
C9_MetadataSurvivesFilter ==
    rendered => notice = pFlights.meta

\* a filter that matches no flight, with a missing date in the metadata
C9_Witness ==
    /\ rendered
    /\ filter = q_xyz
    /\ Len(pFlights.items) > 0
    /\ Len(filteredFlights.items) = 0
    /\ pFlights.meta # NoMeta
    /\ Len(pFlights.meta[1].missingDates) > 0
    /\ notice = pFlights.meta

\* C23: filtering with the empty query returns the input collection
\* unchanged, the same flights in the same order with its metadata; and
\* filtering with any query leaves the input collection as it was, both
\* when the filter text changes and when the result is filtered again.
C23_EmptyQueryIsIdentity ==
    [][/\ filter' = <<>> => filteredFlights' = pFlights'
       /\ filter' # filter => pFlights' = pFlights
       /\ (refiltered' # <<>> /\ filter' = filter /\ pFlights' = pFlights)
             => filteredFlights' = filteredFlights
       /\ (refiltered' # <<>> /\ filter' = <<>>) => refiltered'[1] = pFlights']_vars

\* two flights with range metadata shown under the emptied filter
C23_Witness ==
    /\ filter = <<>>
    /\ Len(pFlights.items) = 2
    /\ pFlights.meta # NoMeta
    /\ filteredFlights = pFlights
    /\ refiltered # <<>>
    /\ refiltered[1] = pFlights

-----------------------------------------------------------------------------
(* Claims on the range fetch, checked under SpecRange *)

Min(a, b) == IF a <= b THEN a ELSE b

\* the calendar days of rStart..rEnd, both included
RequestedDays == DayOfYear(rEnd) - DayOfYear(rStart) + 1

\* the first n calendar dates from rStart on
ConsecutiveDates(n) == [i \in 1..n |-> IsoOfDay(DayOfYear(rStart) + i - 1)]

\* C5: the dates fetched for start..end are the consecutive calendar dates
\* from start on, min(days of the range, 7) of them, and totalDates is that
\* number.
C5_DatesOfRange ==
    rCall # <<>> =>
        /\ rCall[1].dates = ConsecutiveDates(Min(RequestedDays, 7))
        /\ ~rCall[1].result.threw
              => rCall[1].result.data.meta[1].totalDates = Min(RequestedDays, 7)

\* the same in a browser whose zone is UTC, where the claim's example
\* 2026-01-13..2026-01-20 gives the seven dates up to 2026-01-19
C5_DatesOfRangeInUTC ==
    (rCall # <<>> /\ tz = "UTC") =>
        /\ rCall[1].dates = ConsecutiveDates(Min(RequestedDays, 7))
        /\ (rStart = <<2026, 1, 13>> /\ rEnd = <<2026, 1, 20>>)
              => (Len(rCall[1].dates) = 7 /\ rCall[1].dates[7] = <<2026, 1, 19>>)

yieldOf(i) == IF rOutcomes[i] = "one" THEN 1 ELSE 0

\* C6: in the metadata of a range fetch missingDates.length + datesWithData
\* <= totalDates, every missing date is an enumerated date whose fetch
\* yielded no flight, and missingDates is empty when every date yielded one.
C6_MetadataCounts ==
    (rCall # <<>> /\ ~rCall[1].result.threw) =>
        LET m  == rCall[1].result.data.meta[1]
            ds == rCall[1].dates
        IN  /\ Len(m.missingDates) + m.datesWithData <= m.totalDates
            /\ \A k \in 1..Len(m.missingDates) :
                  \E i \in 1..Len(ds) : ds[i] = m.missingDates[k] /\ yieldOf(i) = 0
            /\ (\A i \in 1..Len(ds) : yieldOf(i) >= 1) => m.missingDates = <<>>

\* a range of three dates of which one failed, one was empty and one had a
\* flight
C6_Witness ==
    /\ rCall # <<>>
    /\ ~rCall[1].result.threw
    /\ rOutcomes = <<"fail", "one", "empty">>
    /\ rCall[1].result.data.meta[1].datesWithData = 1
    /\ Len(rCall[1].result.data.meta[1].missingDates) = 2

-----------------------------------------------------------------------------
(* Claims on the route tiers, checked under SpecMap *)

\* count / max is exactly 0.3
AtThreeTenths(r) == 10 * r.popularity[1] = 3 * r.popularity[2]

\* C10 as claimed: a route whose count/max is exactly 0.3 is in the medium
\* tier (blue).
C10_BoundaryIsMedium ==
    \A i \in 1..Len(routes) : AtThreeTenths(routes[i]) => routes[i].color = color_medium

\* C10 as amended: a route whose count/max is exactly 0.3 is in the rare
\* tier (grey); the medium tier begins above 0.3.
C10_BoundaryIsRare ==
    \A i \in 1..Len(routes) : AtThreeTenths(routes[i]) => routes[i].color = color_rare

\* a route counted 3 times beside one counted 10 times
C10_Witness ==
    \E i \in 1..Len(routes) :
        /\ routes[i].count = 3
        /\ routes[i].popularity = <<3, 10>>
        /\ routes[i].color = color_rare

\* the largest count among the routes drawn
LargestRouteCount ==
    CHOOSE c \in {routes[i].count : i \in 1..Len(routes)} :
        \A j \in 1..Len(routes) : routes[j].count <= c

\* C11: the popularity count/max of every route lies in (0, 1]; the route is
\* popular iff popularity > 0.7, medium iff 0.3 < popularity <= 0.7 (exactly
\* 0.7 is medium) and rare otherwise; a route whose count is the maximum has
\* popularity 1 and is popular, so a non-empty route set has a popular route.
C11_PopularityTiers ==
    /\ \A i \in 1..Len(routes) :
          LET c == routes[i].popularity[1]
              m == routes[i].popularity[2]
          IN  /\ c = routes[i].count
              /\ m = LargestRouteCount
              /\ 0 < c /\ c <= m
              /\ routes[i].color = color_popular <=> 10 * c > 7 * m
              /\ routes[i].color = color_medium <=> (10 * c > 3 * m /\ 10 * c <= 7 * m)
              /\ routes[i].color = color_rare <=> 10 * c <= 3 * m
              /\ c = LargestRouteCount => (c = m /\ routes[i].color = color_popular)
    /\ routes # <<>> => \E i \in 1..Len(routes) : routes[i].color = color_popular

\* routes at 10/10 (popular), exactly 7/10 (medium) and 2/10 (rare)
C11_Witness ==
    /\ \E i \in 1..Len(routes) :
          routes[i].popularity = <<10, 10>> /\ routes[i].color = color_popular
    /\ \E i \in 1..Len(routes) :
          routes[i].popularity = <<7, 10>> /\ routes[i].color = color_medium
    /\ \E i \in 1..Len(routes) :
          routes[i].popularity = <<2, 10>> /\ routes[i].color = color_rare

-----------------------------------------------------------------------------
(* Claims on the App's fetches, checked under Spec *)

\* the title the handler of a call sets
titleOfReq(r) ==
    IF r.kind = "search" THEN searchTitleOf(r.query)
    ELSE airportTitle(r.type, r.iata, r.start, r.end)

\* C1: last-request-wins.  Once every issued fetch has settled, the title,
\* the flights and the error on display are those of the fetch issued last:
\* the title is its title; if it resolved, the flights are the ones it
\* returned, and no error is shown when it returned flights; if it failed,
\* an error is shown.
C1_LastRequestWins ==
    (inFlight = <<>> /\ lastReq # <<>>) =>
        LET b   == lastReq[1].req
            res == lastReq[1].result[1]
        IN  /\ searchTitle = titleOfReq(b)
            /\ res.threw => error # NoError
            /\ ~res.threw => flights = res.data
            /\ (~res.threw /\ Len(res.data.items) > 0) => error = NoError

\* C4: in a range fetch the App's error is set only when the fetch of every
\* date failed.
C4_ErrorOnlyWhenEveryDateFails ==
    (/\ errorFrom # <<>>
     /\ errorFrom[1].req.kind = "airport"
     /\ errorFrom[1].req.start # errorFrom[1].req.end)
        => \A i \in DOMAIN errorFrom[1].outs : errorFrom[1].outs[i] = "fail"

\* the fetch whose handler set the error on display met a transport error
TransportErrorShown == \E i \in DOMAIN errorFrom[1].outs : errorFrom[1].outs[i] \in Failures

\* C16: a single-date airport fetch or a manual search that completes
\* without a transport error and returns no flight leaves the error value
\* null; the error value is populated only after a transport error.
C16_ErrorOnlyAfterTransportError ==
    (/\ error # NoError
     /\ errorFrom # <<>>
     /\ \/ errorFrom[1].req.kind = "search"
        \/ errorFrom[1].req.start = errorFrom[1].req.end)
        => TransportErrorShown

\* the step in which the range fetch i settles with the answers outs
RangeSettlesWith(i, outs) ==
    /\ inFlight[i].kind = "airport"
    /\ inFlight[i].start # inFlight[i].end
    /\ LET r   == inFlight[i]
           res == getFlightsInRange(r.iata, r.type, enumerateDates(tz, r.start, r.end), outs)
       IN  settle(i, res, outs, messageOr(res))

\* at least one date returned flights and at least one date is missing
PartialAnswers(outs) ==
    /\ \E k \in DOMAIN outs : outs[k] = "one"
    /\ \E k \in DOMAIN outs : outs[k] # "one"

\* the subsequence of dates whose answer satisfies the test
DatesWhere(dates, outs, withData) ==
    LET idx  == [k \in 1..Len(dates) |-> k]
        keep(k) == (outs[k] = "one") = withData
        kept == SelectSeq(idx, keep)
    IN  [k \in 1..Len(kept) |-> dates[kept[k]]]

\* the flight id the provider has on a date
IdOfDate(d) == IF d[3] % 2 = 1 THEN id_SK100 ELSE id_SK200

SingleSettlesWith(i, o) ==
    /\ inFlight[i].kind = "airport"
    /\ inFlight[i].start = inFlight[i].end
    /\ LET r   == inFlight[i]
           res == getFlights(r.iata, r.type, r.start, o)
       IN  settle(i, res, <<o>>, messageOr(res))

\* the message of the Error a transport failure raises
MessageOfFailure(o) ==
    CASE o = "unauthorized" -> "API-nyckel saknas eller aer felaktig (401)."
      [] o = "offline"      -> "Failed to fetch"
      [] o = "fail"         -> "Network error: 500"

\* C18: when the fetch of a single-date airport selection fails with a
\* transport error (no answer, a status that is not 2xx, the status 401),
\* the failure reaches the App: its handler ends with the Error's message as
\* the error on display and with loading false.
C18_SingleDateFailurePropagates ==
    [][Len(inFlight') < Len(inFlight) => \A i \in 1..Len(inFlight), o \in Failures :
          SingleSettlesWith(i, o) =>
             /\ error' = <<MessageOfFailure(o)>>
             /\ error' # NoError
             /\ loading' = FALSE]_vars

\* the only fetch, of a single date, was answered 401
C18_Witness ==
    /\ inFlight = <<>>
    /\ lastReq # <<>> /\ lastReq[1].req.kind = "airport"
    /\ lastReq[1].req.start = lastReq[1].req.end
    /\ lastReq[1].result[1].threw
    /\ error = <<"API-nyckel saknas eller aer felaktig (401).">>
    /\ loading = FALSE

\* a fetch issued by a date input of the statistics panel is in flight
DateRefetchInFlight == \E i \in 1..Len(inFlight) : inFlight[i].by = "date"

\* C20: while a re-fetch issued by changing a date in the statistics panel
\* is in flight and the flights on display are not empty, the loading
\* overlay is shown (loading is true) and the statistics panel stays
\* mounted (showStatistics is true).
C20_OverlayWhileDateRefetch ==
    (DateRefetchInFlight /\ Len(flights.items) > 0) => (loading /\ showStatistics)

\* the panel stays mounted while a date re-fetch is in flight over flights
C20_PanelStaysMounted ==
    (DateRefetchInFlight /\ Len(flights.items) > 0) => showStatistics

\* when a date re-fetch settles with flights the overlay goes and the panel
\* is still shown
C20_OverlayGoesOnCompletion ==
    [][\A i \in 1..Len(inFlight) :
          (/\ inFlight[i].by = "date"
           /\ Len(inFlight') < Len(inFlight)
           /\ inFlight' = [k \in 1..(Len(inFlight) - 1) |->
                              IF k < i THEN inFlight[k] ELSE inFlight[k + 1]]
           /\ flights' # flights \/ Len(flights.items) > 0
           /\ Len(flights'.items) > 0
           /\ error' = error)
             => (loading' = FALSE /\ showStatistics')]_vars

\* C25: in every reachable state of the App loading is true whenever a
\* fetch is still in flight, and false once every issued fetch has
\* completed.
C25_LoadingIffInFlight ==
    loading <=> (inFlight # <<>>)

\* loading is false once every issued fetch has completed
C25_IdleMeansNotLoading ==
    inFlight = <<>> => ~loading

\* the airport whose timetable a flight was fetched from: where an arrival
\* arrives, where a departure departs
FetchedFor(f) == IF f.type = "Arrival" THEN f.destinationIata ELSE f.originIata

\* C26: whenever no fetch is in flight and the statistics panel is shown,
\* the flights it summarizes were fetched for the airport it is labelled
\* with, currentAirport.
C26_PanelFlightsOfItsAirport ==
    (inFlight = <<>> /\ showStatistics) =>
        \A i \in 1..Len(flights.items) : FetchedFor(flights.items[i]) = currentAirport

\* C27: when a completed range fetch returned no flight but its metadata
\* lists at least one missing date, the statistics panel is still rendered
\* (showStatistics is true), so that the missing-dates notice is visible.
C27_WarningStaysVisible ==
    (/\ inFlight = <<>>
     /\ Len(flights.items) = 0
     /\ flights.meta # NoMeta
     /\ Len(flights.meta[1].missingDates) > 0)
        => showStatistics

\* C29: after any sequence of start-date and end-date changes endDate is
\* not before startDate, and every fetch issued by a date change is called
\* with a start that is not after its end.
C29_EndNotBeforeStart ==
    /\ DayOfYear(endDate) >= DayOfYear(startDate)
    /\ \A i \in 1..Len(inFlight) :
          inFlight[i].by = "date" => DayOfYear(inFlight[i].start) <= DayOfYear(inFlight[i].end)

\* handleStartDateChange alone keeps the order: a fetch it issues has a
\* start that is not after its end
C29_StartChangeKeepsOrder ==
    [][startDate' # startDate =>
          /\ DayOfYear(endDate') >= DayOfYear(startDate') \/ DayOfYear(endDate) < DayOfYear(startDate)
          /\ Len(inFlight') > Len(inFlight) =>
                \/ DayOfYear(inFlight'[Len(inFlight')].start) <= DayOfYear(inFlight'[Len(inFlight')].end)
                \/ DayOfYear(endDate) < DayOfYear(startDate)]_vars

-----------------------------------------------------------------------------
(* Claims on getTopItems, checked under SpecTop *)

\* the value an item is counted under: its destination, undefined being
\* listed as the text "undefined"
valueOf(i) == IF topItems[i].destination = Absent THEN txt_undefined
              ELSE topItems[i].destination

TopValues == {valueOf(i) : i \in 1..Len(topItems)}

\* the number of items with the value v, and where v first occurs
Occurrences(v) == Cardinality({i \in 1..Len(topItems) : valueOf(i) = v})
FirstSeen(v) == CHOOSE i \in 1..Len(topItems) :
                    valueOf(i) = v /\ \A j \in 1..(i - 1) : valueOf(j) # v

\* v ranks before w: more occurrences, or as many and encountered first
RanksBefore(v, w) ==
    \/ Occurrences(v) > Occurrences(w)
    \/ Occurrences(v) = Occurrences(w) /\ FirstSeen(v) < FirstSeen(w)

\* C14: getTopItems returns at most 5 pairs (value, count), count being the
\* number of items with that value, ordered by count descending with ties in
\* first-encountered order; they are the first 5 values of that order; and
\* [A,A,B,A,B,C] yields [(A,3),(B,2),(C,1)].
C14_TopItems ==
    /\ Len(topResult) <= 5
    /\ Len(topResult) = Min(Cardinality(TopValues), 5)
    /\ \A k \in 1..Len(topResult) :
          /\ topResult[k][1] \in TopValues
          /\ topResult[k][2] = Occurrences(topResult[k][1])
    /\ \A k \in 1..Len(topResult), l \in 1..Len(topResult) :
          k < l => RanksBefore(topResult[k][1], topResult[l][1])
    /\ \A v \in TopValues :
          (\A k \in 1..Len(topResult) : topResult[k][1] # v)
             => \A k \in 1..Len(topResult) : RanksBefore(topResult[k][1], v)
    /\ [i \in 1..Len(topItems) |-> topItems[i].destination]
          = <<dest_London, dest_London, dest_Madrid, dest_London, dest_Madrid, dest_Oslo>>
       => topResult = << <<dest_London, 3>>, <<dest_Madrid, 2>>, <<dest_Oslo, 1>> >>

\* six different values, each once: the first five in input order are kept
C14_Witness ==
    /\ Len(topItems) = 6
    /\ Cardinality(TopValues) = 6
    /\ Len(topResult) = 5
    /\ \A k \in 1..5 : topResult[k] = <<valueOf(k), 1>>

-----------------------------------------------------------------------------
(* Claims on the statistics snapshot, checked under SpecRate *)

\* the number of tenths a delay-rate text "d...d.d" stands for, or -1 when
\* the text is no such number (as "NaN" is not)
TenthsOf(t) ==
    IF /\ Len(t) >= 3
       /\ t[Len(t) - 1] = "."
       /\ \A i \in (1..Len(t)) \ {Len(t) - 1} : \E d \in 1..10 : Digits[d] = t[i]
    THEN 10 * numberOf(SubSeq(t, 1, Len(t) - 2)) + numberOf(<<t[Len(t)]>>)
    ELSE -1

\* C15: the snapshot is null exactly when the filtered set is empty;
\* otherwise its delay rate is delayed / total * 100 rounded to one decimal
\* (the nearest tenth), lies between 0 and 100, and is a number, not NaN.
C15_DelayRate ==
    /\ stats = NoStats <=> Len(filteredFlights.items) = 0
    /\ stats # NoStats =>
          LET s == stats[1]
              r == TenthsOf(s.delayRate)
          IN  /\ s.total = Len(filteredFlights.items)
              /\ r >= 0 /\ r <= 1000
              \* |r/10 - 100 * delayed / total| <= 0.05
              /\ 2 * (r * s.total - 1000 * s.statusCounts.delayed) <= s.total
              /\ 2 * (1000 * s.statusCounts.delayed - r * s.total) <= s.total

\* two delayed flights of three: 66.666... is shown as 66.7
C15_Witness ==
    /\ stats # NoStats
    /\ stats[1].total = 3
    /\ stats[1].statusCounts.delayed = 2
    /\ stats[1].delayRate = <<"6","6",".","7">>

-----------------------------------------------------------------------------
(* Claims on the route aggregation and the route selection, checked under  *)
(* SpecRoutes                                                              *)

\* the far-end code of a flight: the origin of an arrival, the destination
\* of a departure
FarEndCode(f) ==
    IF f.type = "Arrival" THEN f.originIata
    ELSE IF f.type = "Departure" THEN f.destinationIata
    ELSE Absent

\* the filtered flights counted under the code c
CountedUnder(c) ==
    {i \in 1..Len(filteredFlights.items) : FarEndCode(filteredFlights.items[i]) = c}

RECURSIVE SumOfCounts(_)
SumOfCounts(acc) == IF acc = <<>> THEN 0 ELSE Head(acc).count + SumOfCounts(Tail(acc))

\* C12: the aggregation counts each filtered flight under its far-end code
\* and skips the flights whose far-end code is absent, is the queried
\* airport or has no coordinates: the routes are exactly the other far-end
\* codes with the number of their flights, the counts sum to at most the
\* number of filtered flights, and no route is the queried airport.
C12_RouteAggregation ==
    /\ \A i \in 1..Len(mapCounts) :
          /\ mapCounts[i].iata # Absent
          /\ mapCounts[i].iata # mapAirport
          /\ mapCounts[i].iata \in DESTINATION_COORDS
          /\ mapCounts[i].count = Cardinality(CountedUnder(mapCounts[i].iata))
          /\ \A j \in 1..Len(mapCounts) : mapCounts[j].iata = mapCounts[i].iata => j = i
    /\ \A k \in 1..Len(filteredFlights.items) :
          LET c == FarEndCode(filteredFlights.items[k])
          IN  (c # Absent /\ c # mapAirport /\ c \in DESTINATION_COORDS)
                 => \E i \in 1..Len(mapCounts) : mapCounts[i].iata = c
    /\ SumOfCounts(mapCounts) <= Len(filteredFlights.items)
    /\ \A i \in 1..Len(routes) : routes[i].iata # mapAirport

\* at ARN, an arrival from ARN itself beside an arrival from LHR: one route
C12_Witness ==
    /\ mapAirport = iata_ARN
    /\ filteredFlights.items = <<f_FromArlanda, f_London>>
    /\ mapCounts = <<[iata |-> iata_LHR, count |-> 1]>>
    /\ Len(routes) = 1

\* the selection is a non-empty text
RouteSelected == selectedRoute # Null /\ selectedRoute # <<>>

\* "far-end IATA code equals the selection or the destination display name
\* contains the selection as a case-insensitive substring"
ClaimedRouteFlight(f) ==
    \/ FarEndCode(f) # Absent /\ toLowerCase(FarEndCode(f)) = toLowerCase(selectedRoute)
    \/ ContainsCI(f.destination, selectedRoute)

\* C13: a selected route resolves to exactly the filtered flights whose
\* far-end code equals the selection or whose destination name contains it
\* case-insensitively, and to no other flight.
C13_RouteResolvesExactly ==
    RouteSelected => routeFlights = SelectSeq(filteredFlights.items, ClaimedRouteFlight)

-----------------------------------------------------------------------------
(* Claims on transformFlight, checked under SpecTransform *)

\* the scheduled timestamp of the direction the record was normalized for
ScheduledOf(raw, flight) ==
    LET timeData == IF flight.type = "Arrival" THEN raw.arrivalTime ELSE raw.departureTime
    IN  IF timeData = <<>> THEN Absent ELSE timeData[1].scheduledUtc

\* a timestamp 'YYYY-MM-DDTHH:MM...' has a time of day
HasTimeOfDay(ts) == ts # Absent /\ Len(ts) >= 16 /\ ts[11] = "T"

IsDigit(c) == \E k \in 1..Len(Digits) : Digits[k] = c

\* the pattern HH:MM
IsHHMM(t) ==
    /\ Len(t) = 5
    /\ IsDigit(t[1]) /\ IsDigit(t[2]) /\ t[3] = ":" /\ IsDigit(t[4]) /\ IsDigit(t[5])

RawGate(raw) ==
    IF raw.locationAndStatus = <<>> THEN Absent ELSE raw.locationAndStatus[1].gate

RawTerminal(raw) ==
    IF raw.locationAndStatus = <<>> THEN Absent ELSE raw.locationAndStatus[1].terminal

\* time is HH:MM of the scheduled timestamp, or '--:--' without one; an
\* absent gate is '-' and a present one is kept
TimeAndGateSentinels ==
    LET f  == normalized[1]
        ts == ScheduledOf(provided, f)
    IN  /\ f.time = IF HasTimeOfDay(ts) THEN SubSeq(ts, 12, 16) ELSE NoTime
        /\ IsHHMM(f.time) \/ f.time = <<"-","-",":","-","-">>
        /\ f.gate = IF RawGate(provided) = Absent THEN <<"-">> ELSE RawGate(provided)

\* C19 as stated: normalizing a record never raises when optional fields
\* are missing; time is HH:MM of the scheduled timestamp or '--:--', and an
\* absent gate and an absent terminal are each encoded as '-'.
C19_AbsentTerminalIsDash ==
    normalized # <<>> =>
        /\ TimeAndGateSentinels
        /\ normalized[1].terminal =
              IF RawTerminal(provided) = Absent THEN <<"-">> ELSE RawTerminal(provided)

\* C19: normalizing a record never raises when optional fields are missing;
\* time is HH:MM of the scheduled timestamp or '--:--', an absent gate is
\* encoded as '-' and an absent terminal as null.
C19_AbsentTerminalIsNull ==
    normalized # <<>> =>
        /\ TimeAndGateSentinels
        /\ normalized[1].terminal =
              IF RawTerminal(provided) = Absent THEN Null ELSE RawTerminal(provided)

\* a departure of a record with neither times nor location: all sentinels
C19_Witness ==
    /\ normalized # <<>>
    /\ provided.departureTime = <<>>
    /\ provided.locationAndStatus = <<>>
    /\ normalized[1].type = "Departure"
    /\ normalized[1].time = NoTime
    /\ normalized[1].gate = NoGate
    /\ normalized[1].terminal = Null

-----------------------------------------------------------------------------
(* Claims on the favorites, checked under SpecFavs *)

IdsOf(ids) == {ids[i] : i \in 1..Len(ids)}

NoDuplicate(ids) == \A i, j \in 1..Len(ids) : ids[i] = ids[j] => i = j

\* the ids other than flightId, in their order
Others(ids, flightId) ==
    LET other(x) == x # flightId
    IN  SelectSeq(ids, other)

\* C21: toggleFavorite(id) flips exactly the membership of id in the
\* persisted favorites: a fresh read of the store holds id iff the store
\* did not before, the other ids keep membership and relative order, the
\* list holds no duplicate, a second toggle of id restores the membership
\* of the original list, and the array returned is what a fresh session
\* reads back.
C21_ToggleFlipsMembership ==
    lastToggle # <<>> =>
        LET id     == lastToggle[1].id
            before == lastToggle[1].before
            after  == getFavorites(storage)
            again  == getFavorites(toggleFavorite(storage, id).item)
        IN  /\ (id \in IdsOf(after)) <=> (id \notin IdsOf(before))
            /\ Others(after, id) = Others(before, id)
            /\ NoDuplicate(after)
            /\ IdsOf(again) = IdsOf(before)
            /\ lastToggle[1].returned = after

\* SK100 was removed from the favorites SK100, SK200
C21_Witness ==
    /\ lastToggle # <<>>
    /\ lastToggle[1].id = id_SK100
    /\ lastToggle[1].before = <<id_SK100, id_SK200>>
    /\ getFavorites(storage) = <<id_SK200>>
    /\ storage = <<<<"[", "dq", "S", "K", "2", "0", "0", "dq", "]">>>>

\* C30: the favorites held by each mounted component equal the persisted
\* favorites: FlightList's copy always, the statistics panel's copy while
\* it is mounted.
C30_CopiesEqualStore ==
    /\ listFavorites = getFavorites(storage)
    /\ statsMounted => statsFavorites = getFavorites(storage)

-----------------------------------------------------------------------------
(* Claims on the order of the flight list, checked under SpecSort *)

\* the UTF-16 code unit of a character of a time text
CodeUnit(c) ==
    IF c = "-" THEN 45
    ELSE IF c = ":" THEN 58
    ELSE 47 + CHOOSE k \in 1..Len(Digits) : Digits[k] = c

\* a <= b in the order of the code units
RECURSIVE TextLeq(_, _)
TextLeq(a, b) ==
    IF a = <<>> THEN TRUE
    ELSE IF b = <<>> THEN FALSE
    ELSE IF CodeUnit(Head(a)) # CodeUnit(Head(b)) THEN CodeUnit(Head(a)) < CodeUnit(Head(b))
    ELSE TextLeq(Tail(a), Tail(b))

IsFavorite(f) == f.id \in IdsOf(getFavorites(storage))

Times(fs, f) == Cardinality({i \in 1..Len(fs) : fs[i] = f})

RawTimeData(raw, flight) ==
    IF flight.type = "Arrival" THEN raw.arrivalTime ELSE raw.departureTime

DigitValue(c) == (CHOOSE k \in 1..Len(Digits) : Digits[k] = c) - 1

\* the minute of the day of a timestamp 'YYYY-MM-DDTHH:MM:SSZ'
MinuteOfDay(ts) ==
    (DigitValue(ts[12]) * 10 + DigitValue(ts[13])) * 60
        + DigitValue(ts[15]) * 10 + DigitValue(ts[16])

\* the provider's record has an actual time at least 15 minutes after the
\* scheduled one
ProviderReportsLate(raw, flight) ==
    LET td == RawTimeData(raw, flight)
    IN  /\ td # <<>>
        /\ "actualUtc" \in DOMAIN td[1]
        /\ HasTimeOfDay(td[1].scheduledUtc) /\ HasTimeOfDay(td[1].actualUtc)
        /\ MinuteOfDay(td[1].actualUtc) - MinuteOfDay(td[1].scheduledUtc) >= 15

\* C24: a flight whose provider record has an actual time at least 15
\* minutes after the scheduled one, and whose status text holds neither the
\* landed nor a delayed marker, is counted as delayed by the statistics:
\* the normalized flight carries scheduledUtc and actualUtc.
C24_LateFlightCountedDelayed ==
    (/\ normalized # <<>>
     /\ ProviderReportsLate(provided, normalized[1])
     /\ ~hasMarker(normalized[1], txt_landat)
     /\ ~hasMarker(normalized[1], txt_delayed)
     /\ ~hasMarker(normalized[1], txt_forsenat))
        => /\ normalized[1].scheduledUtc # NoTs
           /\ normalized[1].actualUtc # NoTs
           /\ calculateStatusCounts(<<normalized[1]>>).delayed = 1

\* C28: for every route shown on the map, the number of flights listed
\* when the route is selected by a click on its marker equals the count
\* displayed for the route.
C28_ListedEqualsCounted ==
    RouteSelected =>
        \A i \in 1..Len(mapCounts) :
            mapCounts[i].iata = selectedRoute => Len(routeFlights) = mapCounts[i].count

=============================================================================
